---- MODULE Spec2Model ----
(***************************************************************************)
(* A model of sort-package-json: the text-to-text function                 *)
(* sort_package_json of src/src/lib.rs and the helpers it calls, and the   *)
(* command-line program of src/src/main.rs that applies it to every        *)
(* package.json below the current directory.                               *)
(*                                                                         *)
(* Text and strings are sequences of Unicode scalar values (naturals), so  *)
(* that Rust's String ordering (byte-wise on UTF-8, which agrees with the  *)
(* ordering of scalar values), starts_with and the JSON reader and writer  *)
(* work on characters.  A serde_json::Value is a tagged record:            *)
(*   [t |-> "null"]                 [t |-> "bool", b |-> TRUE]             *)
(*   [t |-> "num", n |-> a Number]  [t |-> "str", s |-> <<97, 98>>]        *)
(*   [t |-> "arr", a |-> <<v1, v2>>]                                       *)
(*   [t |-> "obj", o |-> <<[k |-> key, v |-> value], ...>>]                *)
(* A serde_json::Map is the sequence of its entries in insertion order     *)
(* with no key twice (the crate builds serde_json with preserve_order: the *)
(* whole library relies on Map keeping insertion order).                   *)
(*                                                                         *)
(* A Number is a u64, a negative i64 or an f64, as serde_json keeps it      *)
(* when built without arbitrary_precision and without float_roundtrip: an  *)
(* integer literal that fits neither integer, -0 and every literal with a  *)
(* fraction or an exponent is an f64, and is written with the shortest     *)
(* digits that read back as that f64, the exponent signed (1e+16, 1e-7).   *)
(* Integers beyond those of the checker are sequences of digits in base    *)
(* 10000.                                                                  *)
(***************************************************************************)
EXTENDS Integers, Sequences, FiniteSets, TLC

VARIABLES
  input,     \* the text handed to the first call of sort_package_json
  form,      \* how the input was written: "json", "deep", "range", "surrogate",
             \* "bom" or "damaged"
  calls,     \* the results of the successive calls, each on the text before it
  files,        \* main.rs: what the walk yields, in order, and each file's state
  walked,       \* main.rs: how many entries of the walk the loop has taken
  found_files,  \* main.rs: let mut found_files
  sorted_files, \* main.rs: let mut sorted_files
  errors,       \* main.rs: let mut errors
  stderr,       \* main.rs: the lines written with eprintln!
  pc,           \* main.rs: "main", "walk" (in the for loop), "found", "sorted"
                \* and "errors" (the summary line to write next), "failed"
                \* (ended before the loop) or "exited" (ended in or after it)
  exit_code     \* main.rs: the status the process ended with

\* the state of the command-line program of src/src/main.rs
wrapper == <<files, walked, found_files, sorted_files, errors, stderr, pc, exit_code>>

vars == <<input, form, calls, wrapper>>

\* the command-line program is not part of the run
NotStarted ==
  /\ files = <<>>
  /\ walked = 0
  /\ found_files = 0 /\ sorted_files = 0 /\ errors = 0
  /\ stderr = <<>>
  /\ pc = "main"
  /\ exit_code = 0

(***************************************************************************)
(* Characters and strings                                                  *)
(***************************************************************************)
Ch ==
  [tab |-> 9, lf |-> 10, cr |-> 13, space |-> 32, quote |-> 34, comma |-> 44,
   minus |-> 45, dot |-> 46, slash |-> 47, zero |-> 48, nine |-> 57,
   colon |-> 58, lbracket |-> 91, backslash |-> 92, rbracket |-> 93,
   underscore |-> 95, lbrace |-> 123, rbrace |-> 125, bom |-> 65279]

Lit ==
  [null |-> <<110, 117, 108, 108>>,            \* null
   true |-> <<116, 114, 117, 101>>,            \* true
   false |-> <<102, 97, 108, 115, 101>>,       \* false
   default |-> <<100, 101, 102, 97, 117, 108, 116>>,   \* default
   types |-> <<116, 121, 112, 101, 115>>,      \* types
   types_at |-> <<116, 121, 112, 101, 115, 64>>,       \* types@
   name |-> <<110, 97, 109, 101>>,             \* name
   email |-> <<101, 109, 97, 105, 108>>,       \* email
   url |-> <<117, 114, 108>>]                  \* url

Range(s) == {s[i] : i \in 1..Len(s)}

\* str::starts_with
starts_with(s, prefix) ==
  Len(s) >= Len(prefix) /\ SubSeq(s, 1, Len(prefix)) = prefix

\* the index of the first character from i on that is in `chars`, the index
\* after the text when there is none
ScanTo(text, i, chars) ==
  CHOOSE j \in i..(Len(text) + 1) :
    /\ j > Len(text) \/ text[j] \in chars
    /\ \A k \in i..(j - 1) : text[k] \notin chars

\* the index of the first character from i on that is not in `chars`, the
\* index after the text when there is none
ScanPast(text, i, chars) ==
  CHOOSE j \in i..(Len(text) + 1) :
    /\ j > Len(text) \/ text[j] \notin chars
    /\ \A k \in i..(j - 1) : text[k] \in chars

\* Ord for String: lexicographic on the characters, decided by the first
\* place where the two differ
StrLess(a, b) ==
  LET shorter == IF Len(a) < Len(b) THEN Len(a) ELSE Len(b)
      d == CHOOSE j \in 1..(shorter + 1) :
             /\ j > shorter \/ a[j] # b[j]
             /\ \A k \in 1..(j - 1) : a[k] = b[k]
  IN  IF d > shorter THEN Len(a) < Len(b) ELSE a[d] < b[d]

(***************************************************************************)
(* Natural numbers of any size.  A u64, the 53 bits of an f64 and the      *)
(* products and quotients of two of them do not fit the integers of the    *)
(* checker, so a natural number is the sequence of its digits in base      *)
(* 10000, the least significant first and with no zero at the high end     *)
(* (zero is the empty sequence): equal numbers are equal sequences.        *)
(***************************************************************************)
Base == 10000

Limb(a, i) == IF i >= 1 /\ i <= Len(a) THEN a[i] ELSE 0

\* the sequence without the zeros at its high end
Trim(a) ==
  SubSeq(a, 1, CHOOSE n \in 0..Len(a) :
                 /\ \A k \in (n + 1)..Len(a) : a[k] = 0
                 /\ (n = 0 \/ a[n] # 0))

\* a natural number below 2^31 as a sequence, and back
Big(n) == Trim(<<n % Base, (n \div Base) % Base, n \div (Base * Base)>>)

Small(a) == Limb(a, 1) + Limb(a, 2) * Base + Limb(a, 3) * Base * Base

BigLess(a, b) ==
  IF Len(a) # Len(b) THEN Len(a) < Len(b)
  ELSE \E i \in 1..Len(a) : a[i] < b[i] /\ \A j \in (i + 1)..Len(a) : a[j] = b[j]

IsOdd(a) == Limb(a, 1) % 2 = 1

\* a * k for a k that divides Base: k * a[i] % Base is a multiple of k and
\* the carry from below is less than k, so no carry runs further than the
\* next place
Times(a, k) ==
  Trim([i \in 1..(Len(a) + 1) |->
          ((k * Limb(a, i)) % Base) + ((k * Limb(a, i - 1)) \div Base)])

\* a \div k for a k that divides Base
Over(a, k) ==
  Trim([i \in 1..Len(a) |-> (a[i] \div k) + (Limb(a, i + 1) % k) * (Base \div k)])

\* a * k for any k below Base
RECURSIVE MulFrom(_, _, _, _)
MulFrom(a, k, i, carry) ==
  IF i > Len(a) THEN (IF carry = 0 THEN <<>> ELSE <<carry>>)
  ELSE <<(a[i] * k + carry) % Base>>
       \o MulFrom(a, k, i + 1, (a[i] * k + carry) \div Base)

MulSmall(a, k) == Trim(MulFrom(a, k, 1, 0))

RECURSIVE PlusFrom(_, _, _, _)
PlusFrom(a, b, i, carry) ==
  IF i > Len(a) /\ i > Len(b) THEN (IF carry = 0 THEN <<>> ELSE <<carry>>)
  ELSE <<(Limb(a, i) + Limb(b, i) + carry) % Base>>
       \o PlusFrom(a, b, i + 1, (Limb(a, i) + Limb(b, i) + carry) \div Base)

Plus(a, b) == PlusFrom(a, b, 1, 0)

\* a - b for a >= b
RECURSIVE MinusFrom(_, _, _, _)
MinusFrom(a, b, i, borrow) ==
  IF i > Len(a) THEN <<>>
  ELSE <<(a[i] - Limb(b, i) - borrow + Base) % Base>>
       \o MinusFrom(a, b, i + 1, IF a[i] - Limb(b, i) - borrow < 0 THEN 1 ELSE 0)

Minus(a, b) == Trim(MinusFrom(a, b, 1, 0))

\* a * b for numbers of at most 20 places: the products of one column
\* summed, then the carries
RECURSIVE Column(_, _, _, _)
Column(a, b, n, i) ==
  IF i > Len(a) THEN 0
  ELSE Limb(a, i) * Limb(b, n + 1 - i) + Column(a, b, n, i + 1)

RECURSIVE CarryFrom(_, _, _)
CarryFrom(cols, i, carry) ==
  IF i > Len(cols) THEN Big(carry)
  ELSE <<(cols[i] + carry) % Base>>
       \o CarryFrom(cols, i + 1, (cols[i] + carry) \div Base)

Mul(a, b) ==
  IF a = <<>> \/ b = <<>> THEN <<>>
  ELSE Trim(CarryFrom([n \in 1..(Len(a) + Len(b) - 1) |-> Column(a, b, n, 1)], 1, 0))

\* a * 2^n and a \div 2^n, sixteen bits at a step
RECURSIVE Shl(_, _)
Shl(a, n) ==
  IF n = 0 \/ a = <<>> THEN a
  ELSE IF n >= 16 THEN Shl(Times(Times(Times(Times(a, 16), 16), 16), 16), n - 16)
  ELSE IF n >= 4 THEN Shl(Times(a, 16), n - 4)
  ELSE Shl(Times(a, 2), n - 1)

RECURSIVE Shr(_, _)
Shr(a, n) ==
  IF n = 0 \/ a = <<>> THEN a
  ELSE IF n >= 16 THEN Shr(Over(Over(Over(Over(a, 16), 16), 16), 16), n - 16)
  ELSE IF n >= 4 THEN Shr(Over(a, 16), n - 4)
  ELSE Shr(Over(a, 2), n - 1)

\* a * 5^n
RECURSIVE Times5(_, _)
Times5(a, n) ==
  IF n = 0 \/ a = <<>> THEN a
  ELSE IF n >= 16 THEN Times5(Times(Times(Times(Times(a, 625), 625), 625), 625), n - 16)
  ELSE IF n >= 4 THEN Times5(Times(a, 625), n - 4)
  ELSE Times5(Times(a, 5), n - 1)

\* the number of bits of a: a number of L places has more than 13 * (L - 1)
\* bits and at most 14 * L
BitsOf(a, low) ==
  CHOOSE n \in 0..(Len(a) + 14) :
    /\ Shr(low, n) = <<>>
    /\ (n = 0 \/ Shr(low, n - 1) # <<>>)

Bits(a) ==
  IF a = <<>> THEN 0
  ELSE 13 * (Len(a) - 1) + BitsOf(a, Shr(a, 13 * (Len(a) - 1)))

Pow10(t) == CASE t = 0 -> 1 [] t = 1 -> 10 [] t = 2 -> 100 [] t = 3 -> 1000

\* the decimal digits (0..9) of a, the most significant first, none for zero
ToDigits(a) ==
  IF a = <<>> THEN <<>>
  ELSE LET top == a[Len(a)]
           n == 4 * (Len(a) - 1)
                + (IF top >= 1000 THEN 4 ELSE IF top >= 100 THEN 3
                   ELSE IF top >= 10 THEN 2 ELSE 1)
       IN  [p \in 1..n |-> (a[((n - p) \div 4) + 1] \div Pow10((n - p) % 4)) % 10]

\* the number that a sequence of decimal digits writes
DigitAt(ds, j) == IF j < Len(ds) THEN ds[Len(ds) - j] ELSE 0

FromDigits(ds) ==
  Trim([i \in 1..((Len(ds) + 3) \div 4) |->
          DigitAt(ds, 4 * (i - 1)) + 10 * DigitAt(ds, 4 * (i - 1) + 1)
          + 100 * DigitAt(ds, 4 * (i - 1) + 2) + 1000 * DigitAt(ds, 4 * (i - 1) + 3)])

\* a \div q and whether a % q # 0, for a q from 2^52 up to 2^53 (the 53 bits
\* of a normal f64): long division, a place of the quotient at a step.  The
\* place is at most its estimate from the two high places of what is left
\* and the high place of q, and less than ten below it.
QuotientPlace(cur, q) ==
  IF BigLess(cur, q) THEN 0
  ELSE LET est == (Limb(cur, Len(q) + 1) * Base + Limb(cur, Len(q))) \div q[Len(q)]
           high == IF est > Base - 1 THEN Base - 1 ELSE est
           low == IF high > 9 THEN high - 9 ELSE 0
       IN  CHOOSE d \in low..high :
             /\ ~BigLess(cur, MulSmall(q, d))
             /\ BigLess(cur, MulSmall(q, d + 1))

RECURSIVE DivFrom(_, _, _, _, _)
DivStep(a, q, i, cur, acc, d) ==
  IF d = 0 THEN DivFrom(a, q, i - 1, cur, <<0>> \o acc)
  ELSE DivFrom(a, q, i - 1, Minus(cur, MulSmall(q, d)), <<d>> \o acc)

DivFrom(a, q, i, rem, acc) ==
  IF i = 0 THEN [quot |-> Trim(acc), inexact |-> rem # <<>>]
  ELSE DivStep(a, q, i, Trim(<<a[i]>> \o rem), acc,
               QuotientPlace(Trim(<<a[i]>> \o rem), q))

Div(a, q) == DivFrom(a, q, Len(a), <<>>, <<>>)

(***************************************************************************)
(* f64.  A finite f64 is [neg, m, e]: the number m * 2^e, negated when neg *)
(* holds, where m has at most 53 bits and either m is at least 2^52 and e  *)
(* at least -1074 (a normal number) or e is -1074 (zero and the subnormal  *)
(* numbers).  Every finite f64 is written in one way only.                 *)
(***************************************************************************)
U64Max == <<1615, 955, 737, 6744, 1844>>   \* 18446744073709551615
Two63 == <<5808, 5477, 368, 3372, 922>>    \* 9223372036854775808
Two52 == <<496, 2737, 5996, 4503>>         \* 4503599627370496
Two53 == <<992, 5474, 1992, 9007>>         \* 9007199254740992
I32Max == 2147483647
I32Min == -2147483647 - 1

F64(neg, m, e) == [inf |-> FALSE, neg |-> neg, m |-> m, e |-> e]

Infinite(neg) == [inf |-> TRUE, neg |-> neg]

\* the f64 for q kept to 53 bits and rounded up or not
Rounded(neg, m, e, up) ==
  IF up /\ Plus(m, <<1>>) = Two53 THEN
    (IF e + 1 > 971 THEN Infinite(neg) ELSE F64(neg, Two52, e + 1))
  ELSE IF ~BigLess(m, Two52) /\ e > 971 THEN Infinite(neg)
  ELSE F64(neg, IF up THEN Plus(m, <<1>>) ELSE m, e)

\* the bits of q above the k - 1 low ones are t: round to nearest, ties to even
RoundAt(neg, q, x, inexact, k, t) ==
  Rounded(neg, Over(t, 2), x + k,
          /\ IsOdd(t)
          /\ (inexact \/ Shl(t, k - 1) # q \/ IsOdd(Over(t, 2))))

\* the f64 nearest to a number from q * 2^x to below (q + 1) * 2^x, q itself
\* unless `inexact`; an inexact q has 55 bits or more.  b is the number of
\* bits of q, k the number of low bits that do not fit.
RoundBits(neg, q, x, inexact, b, k) ==
  IF k > b THEN F64(neg, <<>>, -1074)
  ELSE IF k <= 0 THEN Rounded(neg, Shl(q, 0 - k), x + k, FALSE)
  ELSE RoundAt(neg, q, x, inexact, k, Shr(q, k - 1))

Dropped(b, x) == IF b - 53 > (0 - 1074) - x THEN b - 53 ELSE (0 - 1074) - x

RoundF64(neg, q, x, inexact) ==
  IF q = <<>> THEN F64(neg, <<>>, -1074)
  ELSE RoundBits(neg, q, x, inexact, Bits(q), Dropped(Bits(q), x))

\* `significand as f64`
FromU64(significand) == RoundF64(FALSE, significand, 0, FALSE)

\* f * g
FMul(f, g) == RoundF64(f.neg # g.neg, Mul(f.m, g.m), f.e + g.e, FALSE)

\* f / g for a normal g: the quotient of f.m * 2^s by g.m, with s bits added
\* to f.m so that the quotient has 55 bits or more
FQuotient(f, g, s, d) == RoundF64(f.neg # g.neg, d.quot, (f.e - s) - g.e, d.inexact)

FDivBy(f, g, s) == FQuotient(f, g, s, Div(Shl(f.m, s), g.m))

FDiv(f, g) ==
  IF f.m = <<>> THEN F64(f.neg # g.neg, <<>>, -1074)
  ELSE FDivBy(f, g, 108 - Bits(f.m))

\* 10^n as a natural number
TenTo(n) == [i \in 1..((n \div 4) + 1) |-> IF i = (n \div 4) + 1 THEN Pow10(n % 4) ELSE 0]

\* static POW10: [f64; 309], the f64 that the literal 1e<n> stands for
POW10(n) == RoundF64(FALSE, TenTo(n), 0, FALSE)

(***************************************************************************)
(* serde_json::Value and serde_json::Map                                   *)
(***************************************************************************)
Null == [t |-> "null"]
Bool(b) == [t |-> "bool", b |-> b]
\* serde_json::Number: a u64, a negative i64 (its magnitude) or a finite f64
PosInt(u) == [k |-> "PosInt", u |-> u]
NegInt(u) == [k |-> "NegInt", u |-> u]
Float(f) == [k |-> "Float", f |-> f]
Number(n) == [t |-> "num", n |-> n]
\* the Number of an integer below 2^31 in magnitude
Num(n) == Number(IF n >= 0 THEN PosInt(Big(n)) ELSE NegInt(Big(0 - n)))
Str(s) == [t |-> "str", s |-> s]
Arr(a) == [t |-> "arr", a |-> a]
Obj(o) == [t |-> "obj", o |-> o]

Keys(o) == [i \in 1..Len(o) |-> o[i].k]

HasKey(o, key) == \E i \in 1..Len(o) : o[i].k = key

\* Map::get on a key the map holds
Get(o, key) == o[CHOOSE i \in 1..Len(o) : o[i].k = key].v

\* Map::insert: a key the map holds keeps its place and takes the new value,
\* a new key goes to the end
MapInsert(o, key, value) ==
  IF HasKey(o, key)
  THEN [i \in 1..Len(o) |-> IF o[i].k = key THEN [k |-> key, v |-> value] ELSE o[i]]
  ELSE Append(o, [k |-> key, v |-> value])

(***************************************************************************)
(* Sorting.  Vec::sort, sort_by and sort_by_key are stable: an element is  *)
(* placed after the elements that do not compare greater.                  *)
(***************************************************************************)
RECURSIVE InsertString(_, _)
InsertString(sorted, x) ==
  IF sorted = <<>> THEN <<x>>
  ELSE IF StrLess(x, Head(sorted)) THEN <<x>> \o sorted
  ELSE <<Head(sorted)>> \o InsertString(Tail(sorted), x)

RECURSIVE SortStringsFrom(_, _, _)
SortStringsFrom(s, i, acc) ==
  IF i > Len(s) THEN acc ELSE SortStringsFrom(s, i + 1, InsertString(acc, s[i]))

\* keys.sort() on a Vec of strings
SortStrings(s) == SortStringsFrom(s, 1, <<>>)

RECURSIVE InsertEntry(_, _)
InsertEntry(sorted, x) ==
  IF sorted = <<>> THEN <<x>>
  ELSE IF StrLess(x.k, Head(sorted).k) THEN <<x>> \o sorted
  ELSE <<Head(sorted)>> \o InsertEntry(Tail(sorted), x)

RECURSIVE SortEntriesFrom(_, _, _)
SortEntriesFrom(s, i, acc) ==
  IF i > Len(s) THEN acc ELSE SortEntriesFrom(s, i + 1, InsertEntry(acc, s[i]))

\* the vector left in the order of the input
EntriesAsPushed(s) == s

\* sort_by(|(a, _), (b, _)| a.cmp(b)) on a Vec of (key, value)
SortEntriesByKey(s) == SortEntriesFrom(s, 1, <<>>)

RECURSIVE InsertKnown(_, _)
InsertKnown(sorted, x) ==
  IF sorted = <<>> THEN <<x>>
  ELSE IF x.index < Head(sorted).index THEN <<x>> \o sorted
  ELSE <<Head(sorted)>> \o InsertKnown(Tail(sorted), x)

RECURSIVE SortKnownFrom(_, _, _)
SortKnownFrom(s, i, acc) ==
  IF i > Len(s) THEN acc ELSE SortKnownFrom(s, i + 1, InsertKnown(acc, s[i]))

\* the known vector left in the order of the input
KnownAsPushed(s) == s

\* sort_by_key(|(index, _, _)| *index) on a Vec of (index, key, value)
SortKnownByIndex(s) == SortKnownFrom(s, 1, <<>>)

\* Vec::dedup: of each run of equal neighbours the first is kept
RECURSIVE Dedup(_)
Dedup(s) ==
  IF Len(s) <= 1 THEN s
  ELSE IF s[1] = s[2] THEN Dedup(Tail(s))
  ELSE <<s[1]>> \o Dedup(Tail(s))

(***************************************************************************)
(* The value transforms of src/src/lib.rs.  Each builds its result by      *)
(* Map::insert, in order, of keys that are distinct: the result is the     *)
(* sequence of the inserted entries.                                       *)
(***************************************************************************)
\* a sort that goes on into the objects it finds as values
RECURSIVE sort_object_every_level(_)
sort_object_every_level(obj) ==
  LET keys == SortStrings(Keys(obj))
      sorted(value) ==
        IF value.t = "obj" THEN Obj(sort_object_every_level(value.o)) ELSE value
  IN  [i \in 1..Len(keys) |-> [k |-> keys[i], v |-> sorted(Get(obj, keys[i]))]]

\* sort_object_alphabetically without the sort, the entries turned around:
\* a transform that is not a normal form
reverse_object(obj) == [i \in 1..Len(obj) |-> obj[Len(obj) + 1 - i]]

sort_object_alphabetically(obj) ==
  LET keys == SortStrings(Keys(obj))
  IN  [i \in 1..Len(keys) |-> [k |-> keys[i], v |-> Get(obj, keys[i])]]

\* the first level sorted and the nested objects left as they are
sort_object_first_level(obj) == sort_object_alphabetically(obj)

RECURSIVE sort_object_recursive(_)
sort_object_recursive(obj) ==
  LET keys == SortStrings(Keys(obj))
      transformed_value(value) ==
        IF value.t = "obj" THEN Obj(sort_object_recursive(value.o)) ELSE value
  IN  [i \in 1..Len(keys) |->
         [k |-> keys[i], v |-> transformed_value(Get(obj, keys[i]))]]

\* sort_array_unique without the dedup
sort_array_strings(arr) ==
  LET is_str(v) == v.t = "str"
      found == SelectSeq(arr, is_str)
      strings == [i \in 1..Len(found) |-> found[i].s]
      sorted == SortStrings(strings)
  IN  [i \in 1..Len(sorted) |-> Str(sorted[i])]

sort_array_unique(arr) ==
  LET is_str(v) == v.t = "str"
      found == SelectSeq(arr, is_str)
      strings == [i \in 1..Len(found) |-> found[i].s]
      unique == Dedup(SortStrings(strings))
  IN  [i \in 1..Len(unique) |-> Str(unique[i])]

\* every key of the order inserted, the absent ones with null
sort_object_by_key_order_filled(obj, key_order) ==
  LET value_of(key) == IF HasKey(obj, key) THEN Get(obj, key) ELSE Null
      not_listed(key) == key \notin Range(key_order)
      remaining == SortStrings(SelectSeq(Keys(obj), not_listed))
      keys == key_order \o remaining
  IN  [i \in 1..Len(keys) |-> [k |-> keys[i], v |-> value_of(keys[i])]]

sort_object_by_key_order(obj, key_order) ==
  LET present(key) == HasKey(obj, key)
      ordered == SelectSeq(key_order, present)
      not_listed(key) == key \notin Range(key_order)
      remaining == SortStrings(SelectSeq(Keys(obj), not_listed))
      keys == ordered \o remaining
  IN  [i \in 1..Len(keys) |-> [k |-> keys[i], v |-> Get(obj, keys[i])]]

\* a person's keys in ascending order, name, email and url among them
sort_people_object_alphabetically(obj) == sort_object_alphabetically(obj)

sort_people_object(obj) ==
  sort_object_by_key_order(obj, <<Lit.name, Lit.email, Lit.url>>)

\* one sort over all the keys, with no groups
sort_exports_ungrouped(obj) == sort_object_alphabetically(obj)

RECURSIVE sort_exports(_)
sort_exports(obj) ==
  LET is_path(key) == starts_with(key, <<Ch.dot>>)
      is_default(key) == ~is_path(key) /\ key = Lit.default
      is_types(key) ==
        /\ ~is_path(key)
        /\ ~is_default(key)
        /\ (key = Lit.types \/ starts_with(key, Lit.types_at))
      is_other(key) == ~is_path(key) /\ ~is_default(key) /\ ~is_types(key)
      paths == SortStrings(SelectSeq(Keys(obj), is_path))
      types_conds == SortStrings(SelectSeq(Keys(obj), is_types))
      other_conds == SortStrings(SelectSeq(Keys(obj), is_other))
      default_cond == SelectSeq(Keys(obj), is_default)
      transformed(value) ==
        IF value.t = "obj" THEN Obj(sort_exports(value.o)) ELSE value
  IN  [i \in 1..Len(paths) |->
         [k |-> paths[i], v |-> transformed(Get(obj, paths[i]))]]
      \o [i \in 1..Len(types_conds) |->
         [k |-> types_conds[i], v |-> Get(obj, types_conds[i])]]
      \o [i \in 1..Len(other_conds) |->
         [k |-> other_conds[i], v |-> Get(obj, other_conds[i])]]
      \o [i \in 1..Len(default_cond) |->
         [k |-> default_cond[i], v |-> Get(obj, default_cond[i])]]

(***************************************************************************)
(* The match of sort_object_keys as a table: one record per arm, with the  *)
(* order index the arm pushes and the transform it applies.                *)
(***************************************************************************)
KnownFields ==
  <<
    \* "$schema"
    [index |-> 0, key |-> <<36, 115, 99, 104, 101, 109, 97>>,
     transform |-> "none", key_order |-> <<>>],
    \* "name"
    [index |-> 1, key |-> <<110, 97, 109, 101>>,
     transform |-> "none", key_order |-> <<>>],
    \* "displayName"
    [index |-> 2, key |-> <<100, 105, 115, 112, 108, 97, 121, 78, 97, 109, 101>>,
     transform |-> "none", key_order |-> <<>>],
    \* "version"
    [index |-> 3, key |-> <<118, 101, 114, 115, 105, 111, 110>>,
     transform |-> "none", key_order |-> <<>>],
    \* "stableVersion"
    [index |-> 4, key |-> <<115, 116, 97, 98, 108, 101, 86, 101, 114, 115, 105, 111, 110>>,
     transform |-> "none", key_order |-> <<>>],
    \* "private"
    [index |-> 5, key |-> <<112, 114, 105, 118, 97, 116, 101>>,
     transform |-> "none", key_order |-> <<>>],
    \* "description"
    [index |-> 6, key |-> <<100, 101, 115, 99, 114, 105, 112, 116, 105, 111, 110>>,
     transform |-> "none", key_order |-> <<>>],
    \* "categories"
    [index |-> 7, key |-> <<99, 97, 116, 101, 103, 111, 114, 105, 101, 115>>,
     transform |-> "unique", key_order |-> <<>>],
    \* "keywords"
    [index |-> 8, key |-> <<107, 101, 121, 119, 111, 114, 100, 115>>,
     transform |-> "unique", key_order |-> <<>>],
    \* "homepage"
    [index |-> 9, key |-> <<104, 111, 109, 101, 112, 97, 103, 101>>,
     transform |-> "none", key_order |-> <<>>],
    \* "bugs" with key order url, email
    [index |-> 10, key |-> <<98, 117, 103, 115>>,
     transform |-> "order", key_order |-> <<<<117, 114, 108>>, <<101, 109, 97, 105, 108>>>>],
    \* "repository" with key order type, url
    [index |-> 11, key |-> <<114, 101, 112, 111, 115, 105, 116, 111, 114, 121>>,
     transform |-> "order", key_order |-> <<<<116, 121, 112, 101>>, <<117, 114, 108>>>>],
    \* "funding" with key order type, url
    [index |-> 12, key |-> <<102, 117, 110, 100, 105, 110, 103>>,
     transform |-> "order", key_order |-> <<<<116, 121, 112, 101>>, <<117, 114, 108>>>>],
    \* "license"
    [index |-> 13, key |-> <<108, 105, 99, 101, 110, 115, 101>>,
     transform |-> "none", key_order |-> <<>>],
    \* "qna"
    [index |-> 14, key |-> <<113, 110, 97>>,
     transform |-> "none", key_order |-> <<>>],
    \* "author"
    [index |-> 15, key |-> <<97, 117, 116, 104, 111, 114>>,
     transform |-> "people", key_order |-> <<>>],
    \* "maintainers"
    [index |-> 16, key |-> <<109, 97, 105, 110, 116, 97, 105, 110, 101, 114, 115>>,
     transform |-> "people_array", key_order |-> <<>>],
    \* "contributors"
    [index |-> 17, key |-> <<99, 111, 110, 116, 114, 105, 98, 117, 116, 111, 114, 115>>,
     transform |-> "people_array", key_order |-> <<>>],
    \* "publisher"
    [index |-> 18, key |-> <<112, 117, 98, 108, 105, 115, 104, 101, 114>>,
     transform |-> "none", key_order |-> <<>>],
    \* "sideEffects"
    [index |-> 19, key |-> <<115, 105, 100, 101, 69, 102, 102, 101, 99, 116, 115>>,
     transform |-> "none", key_order |-> <<>>],
    \* "type"
    [index |-> 20, key |-> <<116, 121, 112, 101>>,
     transform |-> "none", key_order |-> <<>>],
    \* "imports"
    [index |-> 21, key |-> <<105, 109, 112, 111, 114, 116, 115>>,
     transform |-> "none", key_order |-> <<>>],
    \* "exports"
    [index |-> 22, key |-> <<101, 120, 112, 111, 114, 116, 115>>,
     transform |-> "exports", key_order |-> <<>>],
    \* "main"
    [index |-> 23, key |-> <<109, 97, 105, 110>>,
     transform |-> "none", key_order |-> <<>>],
    \* "svelte"
    [index |-> 24, key |-> <<115, 118, 101, 108, 116, 101>>,
     transform |-> "none", key_order |-> <<>>],
    \* "umd:main"
    [index |-> 25, key |-> <<117, 109, 100, 58, 109, 97, 105, 110>>,
     transform |-> "none", key_order |-> <<>>],
    \* "jsdelivr"
    [index |-> 26, key |-> <<106, 115, 100, 101, 108, 105, 118, 114>>,
     transform |-> "none", key_order |-> <<>>],
    \* "unpkg"
    [index |-> 27, key |-> <<117, 110, 112, 107, 103>>,
     transform |-> "none", key_order |-> <<>>],
    \* "module"
    [index |-> 28, key |-> <<109, 111, 100, 117, 108, 101>>,
     transform |-> "none", key_order |-> <<>>],
    \* "source"
    [index |-> 29, key |-> <<115, 111, 117, 114, 99, 101>>,
     transform |-> "none", key_order |-> <<>>],
    \* "jsnext:main"
    [index |-> 30, key |-> <<106, 115, 110, 101, 120, 116, 58, 109, 97, 105, 110>>,
     transform |-> "none", key_order |-> <<>>],
    \* "browser"
    [index |-> 31, key |-> <<98, 114, 111, 119, 115, 101, 114>>,
     transform |-> "none", key_order |-> <<>>],
    \* "react-native"
    [index |-> 32, key |-> <<114, 101, 97, 99, 116, 45, 110, 97, 116, 105, 118, 101>>,
     transform |-> "none", key_order |-> <<>>],
    \* "types"
    [index |-> 33, key |-> <<116, 121, 112, 101, 115>>,
     transform |-> "none", key_order |-> <<>>],
    \* "typesVersions"
    [index |-> 34, key |-> <<116, 121, 112, 101, 115, 86, 101, 114, 115, 105, 111, 110, 115>>,
     transform |-> "none", key_order |-> <<>>],
    \* "typings"
    [index |-> 35, key |-> <<116, 121, 112, 105, 110, 103, 115>>,
     transform |-> "none", key_order |-> <<>>],
    \* "style"
    [index |-> 36, key |-> <<115, 116, 121, 108, 101>>,
     transform |-> "none", key_order |-> <<>>],
    \* "example"
    [index |-> 37, key |-> <<101, 120, 97, 109, 112, 108, 101>>,
     transform |-> "none", key_order |-> <<>>],
    \* "examplestyle"
    [index |-> 38, key |-> <<101, 120, 97, 109, 112, 108, 101, 115, 116, 121, 108, 101>>,
     transform |-> "none", key_order |-> <<>>],
    \* "assets"
    [index |-> 39, key |-> <<97, 115, 115, 101, 116, 115>>,
     transform |-> "none", key_order |-> <<>>],
    \* "bin"
    [index |-> 40, key |-> <<98, 105, 110>>,
     transform |-> "alpha", key_order |-> <<>>],
    \* "man"
    [index |-> 41, key |-> <<109, 97, 110>>,
     transform |-> "none", key_order |-> <<>>],
    \* "directories" with key order lib, bin, man, doc, example, test
    [index |-> 42, key |-> <<100, 105, 114, 101, 99, 116, 111, 114, 105, 101, 115>>,
     transform |-> "order", key_order |-> <<<<108, 105, 98>>, <<98, 105, 110>>, <<109, 97, 110>>, <<100, 111, 99>>, <<101, 120, 97, 109, 112, 108, 101>>, <<116, 101, 115, 116>>>>],
    \* "files"
    [index |-> 43, key |-> <<102, 105, 108, 101, 115>>,
     transform |-> "unique", key_order |-> <<>>],
    \* "workspaces"
    [index |-> 44, key |-> <<119, 111, 114, 107, 115, 112, 97, 99, 101, 115>>,
     transform |-> "none", key_order |-> <<>>],
    \* "binary" with key order module_name, module_path, remote_path, package_name, host
    [index |-> 45, key |-> <<98, 105, 110, 97, 114, 121>>,
     transform |-> "order", key_order |-> <<<<109, 111, 100, 117, 108, 101, 95, 110, 97, 109, 101>>, <<109, 111, 100, 117, 108, 101, 95, 112, 97, 116, 104>>, <<114, 101, 109, 111, 116, 101, 95, 112, 97, 116, 104>>, <<112, 97, 99, 107, 97, 103, 101, 95, 110, 97, 109, 101>>, <<104, 111, 115, 116>>>>],
    \* "scripts"
    [index |-> 46, key |-> <<115, 99, 114, 105, 112, 116, 115>>,
     transform |-> "none", key_order |-> <<>>],
    \* "betterScripts"
    [index |-> 47, key |-> <<98, 101, 116, 116, 101, 114, 83, 99, 114, 105, 112, 116, 115>>,
     transform |-> "none", key_order |-> <<>>],
    \* "l10n"
    [index |-> 48, key |-> <<108, 49, 48, 110>>,
     transform |-> "none", key_order |-> <<>>],
    \* "contributes"
    [index |-> 49, key |-> <<99, 111, 110, 116, 114, 105, 98, 117, 116, 101, 115>>,
     transform |-> "none", key_order |-> <<>>],
    \* "activationEvents"
    [index |-> 50, key |-> <<97, 99, 116, 105, 118, 97, 116, 105, 111, 110, 69, 118, 101, 110, 116, 115>>,
     transform |-> "unique", key_order |-> <<>>],
    \* "husky"
    [index |-> 51, key |-> <<104, 117, 115, 107, 121>>,
     transform |-> "recursive", key_order |-> <<>>],
    \* "simple-git-hooks"
    [index |-> 52, key |-> <<115, 105, 109, 112, 108, 101, 45, 103, 105, 116, 45, 104, 111, 111, 107, 115>>,
     transform |-> "none", key_order |-> <<>>],
    \* "pre-commit"
    [index |-> 53, key |-> <<112, 114, 101, 45, 99, 111, 109, 109, 105, 116>>,
     transform |-> "none", key_order |-> <<>>],
    \* "commitlint"
    [index |-> 54, key |-> <<99, 111, 109, 109, 105, 116, 108, 105, 110, 116>>,
     transform |-> "recursive", key_order |-> <<>>],
    \* "lint-staged"
    [index |-> 55, key |-> <<108, 105, 110, 116, 45, 115, 116, 97, 103, 101, 100>>,
     transform |-> "none", key_order |-> <<>>],
    \* "nano-staged"
    [index |-> 56, key |-> <<110, 97, 110, 111, 45, 115, 116, 97, 103, 101, 100>>,
     transform |-> "none", key_order |-> <<>>],
    \* "config"
    [index |-> 57, key |-> <<99, 111, 110, 102, 105, 103>>,
     transform |-> "alpha", key_order |-> <<>>],
    \* "nodemonConfig"
    [index |-> 58, key |-> <<110, 111, 100, 101, 109, 111, 110, 67, 111, 110, 102, 105, 103>>,
     transform |-> "recursive", key_order |-> <<>>],
    \* "browserify"
    [index |-> 59, key |-> <<98, 114, 111, 119, 115, 101, 114, 105, 102, 121>>,
     transform |-> "recursive", key_order |-> <<>>],
    \* "babel"
    [index |-> 60, key |-> <<98, 97, 98, 101, 108>>,
     transform |-> "recursive", key_order |-> <<>>],
    \* "browserslist"
    [index |-> 61, key |-> <<98, 114, 111, 119, 115, 101, 114, 115, 108, 105, 115, 116>>,
     transform |-> "none", key_order |-> <<>>],
    \* "xo"
    [index |-> 62, key |-> <<120, 111>>,
     transform |-> "recursive", key_order |-> <<>>],
    \* "prettier"
    [index |-> 63, key |-> <<112, 114, 101, 116, 116, 105, 101, 114>>,
     transform |-> "recursive", key_order |-> <<>>],
    \* "eslintConfig"
    [index |-> 64, key |-> <<101, 115, 108, 105, 110, 116, 67, 111, 110, 102, 105, 103>>,
     transform |-> "recursive", key_order |-> <<>>],
    \* "eslintIgnore"
    [index |-> 65, key |-> <<101, 115, 108, 105, 110, 116, 73, 103, 110, 111, 114, 101>>,
     transform |-> "none", key_order |-> <<>>],
    \* "npmpkgjsonlint"
    [index |-> 66, key |-> <<110, 112, 109, 112, 107, 103, 106, 115, 111, 110, 108, 105, 110, 116>>,
     transform |-> "none", key_order |-> <<>>],
    \* "npmPackageJsonLintConfig"
    [index |-> 67, key |-> <<110, 112, 109, 80, 97, 99, 107, 97, 103, 101, 74, 115, 111, 110, 76, 105, 110, 116, 67, 111, 110, 102, 105, 103>>,
     transform |-> "none", key_order |-> <<>>],
    \* "npmpackagejsonlint"
    [index |-> 68, key |-> <<110, 112, 109, 112, 97, 99, 107, 97, 103, 101, 106, 115, 111, 110, 108, 105, 110, 116>>,
     transform |-> "none", key_order |-> <<>>],
    \* "release"
    [index |-> 69, key |-> <<114, 101, 108, 101, 97, 115, 101>>,
     transform |-> "none", key_order |-> <<>>],
    \* "remarkConfig"
    [index |-> 70, key |-> <<114, 101, 109, 97, 114, 107, 67, 111, 110, 102, 105, 103>>,
     transform |-> "recursive", key_order |-> <<>>],
    \* "stylelint"
    [index |-> 71, key |-> <<115, 116, 121, 108, 101, 108, 105, 110, 116>>,
     transform |-> "recursive", key_order |-> <<>>],
    \* "ava"
    [index |-> 72, key |-> <<97, 118, 97>>,
     transform |-> "recursive", key_order |-> <<>>],
    \* "jest"
    [index |-> 73, key |-> <<106, 101, 115, 116>>,
     transform |-> "recursive", key_order |-> <<>>],
    \* "jest-junit"
    [index |-> 74, key |-> <<106, 101, 115, 116, 45, 106, 117, 110, 105, 116>>,
     transform |-> "none", key_order |-> <<>>],
    \* "jest-stare"
    [index |-> 75, key |-> <<106, 101, 115, 116, 45, 115, 116, 97, 114, 101>>,
     transform |-> "none", key_order |-> <<>>],
    \* "mocha"
    [index |-> 76, key |-> <<109, 111, 99, 104, 97>>,
     transform |-> "recursive", key_order |-> <<>>],
    \* "nyc"
    [index |-> 77, key |-> <<110, 121, 99>>,
     transform |-> "recursive", key_order |-> <<>>],
    \* "c8"
    [index |-> 78, key |-> <<99, 56>>,
     transform |-> "recursive", key_order |-> <<>>],
    \* "tap"
    [index |-> 79, key |-> <<116, 97, 112>>,
     transform |-> "none", key_order |-> <<>>],
    \* "oclif"
    [index |-> 80, key |-> <<111, 99, 108, 105, 102>>,
     transform |-> "recursive", key_order |-> <<>>],
    \* "resolutions"
    [index |-> 81, key |-> <<114, 101, 115, 111, 108, 117, 116, 105, 111, 110, 115>>,
     transform |-> "alpha", key_order |-> <<>>],
    \* "overrides"
    [index |-> 82, key |-> <<111, 118, 101, 114, 114, 105, 100, 101, 115>>,
     transform |-> "alpha", key_order |-> <<>>],
    \* "dependencies"
    [index |-> 83, key |-> <<100, 101, 112, 101, 110, 100, 101, 110, 99, 105, 101, 115>>,
     transform |-> "alpha", key_order |-> <<>>],
    \* "devDependencies"
    [index |-> 84, key |-> <<100, 101, 118, 68, 101, 112, 101, 110, 100, 101, 110, 99, 105, 101, 115>>,
     transform |-> "alpha", key_order |-> <<>>],
    \* "dependenciesMeta"
    [index |-> 85, key |-> <<100, 101, 112, 101, 110, 100, 101, 110, 99, 105, 101, 115, 77, 101, 116, 97>>,
     transform |-> "none", key_order |-> <<>>],
    \* "peerDependencies"
    [index |-> 86, key |-> <<112, 101, 101, 114, 68, 101, 112, 101, 110, 100, 101, 110, 99, 105, 101, 115>>,
     transform |-> "alpha", key_order |-> <<>>],
    \* "peerDependenciesMeta"
    [index |-> 87, key |-> <<112, 101, 101, 114, 68, 101, 112, 101, 110, 100, 101, 110, 99, 105, 101, 115, 77, 101, 116, 97>>,
     transform |-> "none", key_order |-> <<>>],
    \* "optionalDependencies"
    [index |-> 88, key |-> <<111, 112, 116, 105, 111, 110, 97, 108, 68, 101, 112, 101, 110, 100, 101, 110, 99, 105, 101, 115>>,
     transform |-> "alpha", key_order |-> <<>>],
    \* "bundledDependencies"
    [index |-> 89, key |-> <<98, 117, 110, 100, 108, 101, 100, 68, 101, 112, 101, 110, 100, 101, 110, 99, 105, 101, 115>>,
     transform |-> "unique", key_order |-> <<>>],
    \* "bundleDependencies"
    [index |-> 90, key |-> <<98, 117, 110, 100, 108, 101, 68, 101, 112, 101, 110, 100, 101, 110, 99, 105, 101, 115>>,
     transform |-> "unique", key_order |-> <<>>],
    \* "extensionPack"
    [index |-> 91, key |-> <<101, 120, 116, 101, 110, 115, 105, 111, 110, 80, 97, 99, 107>>,
     transform |-> "unique", key_order |-> <<>>],
    \* "extensionDependencies"
    [index |-> 92, key |-> <<101, 120, 116, 101, 110, 115, 105, 111, 110, 68, 101, 112, 101, 110, 100, 101, 110, 99, 105, 101, 115>>,
     transform |-> "unique", key_order |-> <<>>],
    \* "flat"
    [index |-> 93, key |-> <<102, 108, 97, 116>>,
     transform |-> "none", key_order |-> <<>>],
    \* "packageManager"
    [index |-> 94, key |-> <<112, 97, 99, 107, 97, 103, 101, 77, 97, 110, 97, 103, 101, 114>>,
     transform |-> "none", key_order |-> <<>>],
    \* "engines"
    [index |-> 95, key |-> <<101, 110, 103, 105, 110, 101, 115>>,
     transform |-> "alpha", key_order |-> <<>>],
    \* "engineStrict"
    [index |-> 96, key |-> <<101, 110, 103, 105, 110, 101, 83, 116, 114, 105, 99, 116>>,
     transform |-> "none", key_order |-> <<>>],
    \* "volta"
    [index |-> 97, key |-> <<118, 111, 108, 116, 97>>,
     transform |-> "recursive", key_order |-> <<>>],
    \* "languageName"
    [index |-> 98, key |-> <<108, 97, 110, 103, 117, 97, 103, 101, 78, 97, 109, 101>>,
     transform |-> "none", key_order |-> <<>>],
    \* "os"
    [index |-> 99, key |-> <<111, 115>>,
     transform |-> "none", key_order |-> <<>>],
    \* "cpu"
    [index |-> 100, key |-> <<99, 112, 117>>,
     transform |-> "none", key_order |-> <<>>],
    \* "preferGlobal"
    [index |-> 101, key |-> <<112, 114, 101, 102, 101, 114, 71, 108, 111, 98, 97, 108>>,
     transform |-> "none", key_order |-> <<>>],
    \* "publishConfig"
    [index |-> 102, key |-> <<112, 117, 98, 108, 105, 115, 104, 67, 111, 110, 102, 105, 103>>,
     transform |-> "alpha", key_order |-> <<>>],
    \* "icon"
    [index |-> 103, key |-> <<105, 99, 111, 110>>,
     transform |-> "none", key_order |-> <<>>],
    \* "badges"
    [index |-> 104, key |-> <<98, 97, 100, 103, 101, 115>>,
     transform |-> "none", key_order |-> <<>>],
    \* "galleryBanner"
    [index |-> 105, key |-> <<103, 97, 108, 108, 101, 114, 121, 66, 97, 110, 110, 101, 114>>,
     transform |-> "none", key_order |-> <<>>],
    \* "preview"
    [index |-> 106, key |-> <<112, 114, 101, 118, 105, 101, 119>>,
     transform |-> "none", key_order |-> <<>>],
    \* "markdown"
    [index |-> 107, key |-> <<109, 97, 114, 107, 100, 111, 119, 110>>,
     transform |-> "none", key_order |-> <<>>],
    \* "pnpm"
    [index |-> 108, key |-> <<112, 110, 112, 109>>,
     transform |-> "none", key_order |-> <<>>]
  >>

IsKnown(key) == \E field \in Range(KnownFields) : field.key = key

FieldOf(key) == CHOOSE field \in Range(KnownFields) : field.key = key

\* arms that replace a value of another type than the transform's by the
\* empty value of the transform's type
TransformedOrEmpty(field, value) ==
  CASE field.transform = "none" -> value
    [] field.transform = "unique" ->
         IF value.t = "arr" THEN Arr(sort_array_unique(value.a)) ELSE Arr(<<>>)
    [] field.transform = "alpha" ->
         IF value.t = "obj" THEN Obj(sort_object_alphabetically(value.o))
         ELSE Obj(<<>>)
    [] field.transform = "recursive" ->
         IF value.t = "obj" THEN Obj(sort_object_recursive(value.o)) ELSE Obj(<<>>)
    [] field.transform = "order" ->
         IF value.t = "obj"
         THEN Obj(sort_object_by_key_order(value.o, field.key_order))
         ELSE Obj(<<>>)
    [] field.transform = "people" ->
         IF value.t = "obj" THEN Obj(sort_people_object(value.o)) ELSE Obj(<<>>)
    [] field.transform = "people_array" ->
         IF value.t = "arr"
         THEN Arr([i \in 1..Len(value.a) |->
                     IF value.a[i].t = "obj"
                     THEN Obj(sort_people_object(value.a[i].o))
                     ELSE value.a[i]])
         ELSE Arr(<<>>)
    [] field.transform = "exports" ->
         IF value.t = "obj" THEN Obj(sort_exports(value.o)) ELSE Obj(<<>>)

\* the body of one arm: the value the arm pushes for `value`
Transformed(field, value) ==
  CASE field.transform = "none" -> value
    [] field.transform = "unique" ->
         IF value.t = "arr" THEN Arr(sort_array_unique(value.a)) ELSE value
    [] field.transform = "alpha" ->
         IF value.t = "obj" THEN Obj(sort_object_alphabetically(value.o)) ELSE value
    [] field.transform = "recursive" ->
         IF value.t = "obj" THEN Obj(sort_object_recursive(value.o)) ELSE value
    [] field.transform = "order" ->
         IF value.t = "obj"
         THEN Obj(sort_object_by_key_order(value.o, field.key_order))
         ELSE value
    [] field.transform = "people" ->
         IF value.t = "obj" THEN Obj(sort_people_object(value.o)) ELSE value
    [] field.transform = "people_array" ->
         IF value.t = "arr"
         THEN Arr([i \in 1..Len(value.a) |->
                     IF value.a[i].t = "obj"
                     THEN Obj(sort_people_object(value.a[i].o))
                     ELSE value.a[i]])
         ELSE value
    [] field.transform = "exports" ->
         IF value.t = "obj" THEN Obj(sort_exports(value.o)) ELSE value

\* what the arm of `field` pushes to known for the entry
Pushed(field, entry) ==
  [index |-> field.index, k |-> entry.k, v |-> Transformed(field, entry.v)]

KnownEntries(found) == [i \in 1..Len(found) |-> Pushed(FieldOf(found[i].k), found[i])]

\* the three vectors the single pass over the object fills
KnownOf(obj) ==
  LET is_known(e) == IsKnown(e.k) IN KnownEntries(SelectSeq(obj, is_known))

\* a pass that tidies the values of the keys it does not know
NonPrivateTidied(obj) ==
  LET is_non_private(e) == ~IsKnown(e.k) /\ ~starts_with(e.k, <<Ch.underscore>>)
      tidied(e) == IF e.v.t = "obj" THEN [k |-> e.k, v |-> Obj(sort_object_recursive(e.v.o))]
                   ELSE e
      kept == SelectSeq(obj, is_non_private)
  IN  [i \in 1..Len(kept) |-> tidied(kept[i])]

NonPrivateOf(obj) ==
  LET is_non_private(e) == ~IsKnown(e.k) /\ ~starts_with(e.k, <<Ch.underscore>>)
  IN  SelectSeq(obj, is_non_private)

\* a pass that pushes no private key
PrivateDropped(obj) == <<>>

PrivateOf(obj) ==
  LET is_private(e) == ~IsKnown(e.k) /\ starts_with(e.k, <<Ch.underscore>>)
  IN  SelectSeq(obj, is_private)

\* the known vector as entries of the result
Inserted(known) == [i \in 1..Len(known) |-> [k |-> known[i].k, v |-> known[i].v]]

\* the result built with the private keys before the non-private ones
sort_object_keys_private_first(obj) ==
  Inserted(SortKnownByIndex(KnownOf(obj)))
  \o SortEntriesByKey(PrivateOf(obj))
  \o SortEntriesByKey(NonPrivateOf(obj))

sort_object_keys(obj) ==
  Inserted(SortKnownByIndex(KnownOf(obj)))
  \o SortEntriesByKey(NonPrivateOf(obj))
  \o SortEntriesByKey(PrivateOf(obj))

(***************************************************************************)
(* serde_json::from_str: the reader.  A result is [ok |-> FALSE] or        *)
(* [ok |-> TRUE, v |-> what was read, pos |-> the index after it].         *)
(***************************************************************************)
\* serde_json's Deserializer starts with remaining_depth = 128 and fails on
\* the array or object that brings it to 0
RecursionLimit == 128

Fail == [ok |-> FALSE]

Whitespace == {Ch.space, Ch.tab, Ch.lf, Ch.cr}

\* the characters a string holds only as an escape: the quote, the backslash
\* and the control characters
Escaped == {Ch.quote, Ch.backslash} \cup 0..31

IsDigit(c) == c >= Ch.zero /\ c <= Ch.nine

\* the index of the first character from i on that is no whitespace, the
\* index after the text when there is none
SkipWs(text, i) == ScanPast(text, i, Whitespace)

HexVal(c) ==
  IF IsDigit(c) THEN c - 48
  ELSE IF c >= 65 /\ c <= 70 THEN c - 55
  ELSE IF c >= 97 /\ c <= 102 THEN c - 87
  ELSE -1

\* the character an escape \c stands for, -1 when there is none
Unescape(c) ==
  CASE c = Ch.quote -> Ch.quote
    [] c = Ch.backslash -> Ch.backslash
    [] c = Ch.slash -> Ch.slash
    [] c = 98 -> 8
    [] c = 102 -> 12
    [] c = 110 -> Ch.lf
    [] c = 114 -> Ch.cr
    [] c = 116 -> Ch.tab
    [] OTHER -> -1

\* decode_hex_escape: the number that the four hexadecimal digits from i on
\* write, -1 when they are not four hexadecimal digits
Hex4(text, i) ==
  IF i + 3 > Len(text) THEN -1
  ELSE IF \E n \in 0..3 : HexVal(text[i + n]) < 0 THEN -1
  ELSE ((HexVal(text[i]) * 16 + HexVal(text[i + 1])) * 16
        + HexVal(text[i + 2])) * 16 + HexVal(text[i + 3])

\* the character of the escape \u whose digits begin at i and the index
\* after it: a number from D800 to DBFF is the first half of a character
\* and takes a second escape from DC00 to DFFF as the other half
UnicodeEscape(text, i) ==
  LET n1 == Hex4(text, i)
      n2 == Hex4(text, i + 6)
  IN  IF n1 < 0 THEN Fail
      ELSE IF n1 >= 56320 /\ n1 <= 57343 THEN Fail
      ELSE IF n1 < 55296 \/ n1 > 56319 THEN [ok |-> TRUE, v |-> n1, pos |-> i + 4]
      ELSE IF i + 5 > Len(text) THEN Fail
      ELSE IF text[i + 4] # Ch.backslash \/ text[i + 5] # 117 THEN Fail
      ELSE IF n2 < 56320 \/ n2 > 57343 THEN Fail
      ELSE [ok |-> TRUE, v |-> 65536 + (n1 - 55296) * 1024 + (n2 - 56320),
            pos |-> i + 10]

\* the characters of a string, from the one after its opening quote: the run
\* up to the next quote, backslash or control character is taken as it is
RECURSIVE ParseString(_, _, _)
ParseString(text, i, acc) ==
  LET j == ScanTo(text, i, Escaped)
      run == acc \o SubSeq(text, i, j - 1)
  IN  IF j > Len(text) THEN Fail
      ELSE IF text[j] = Ch.quote THEN [ok |-> TRUE, v |-> run, pos |-> j + 1]
      ELSE IF text[j] = Ch.backslash THEN
        IF j + 1 > Len(text) THEN Fail
        ELSE IF text[j + 1] = 117 THEN
          LET u == UnicodeEscape(text, j + 2)
          IN  IF ~u.ok THEN Fail
              ELSE ParseString(text, u.pos, Append(run, u.v))
        ELSE IF Unescape(text[j + 1]) < 0 THEN Fail
        ELSE ParseString(text, j + 2, Append(run, Unescape(text[j + 1])))
      ELSE Fail

(***************************************************************************)
(* The number reader: Deserializer::parse_integer and what it calls, as    *)
(* built without the features float_roundtrip and arbitrary_precision.     *)
(* The significand is a u64 that takes the digits as long as they fit; an  *)
(* f64 is that u64 as an f64, multiplied or divided by a power of ten.     *)
(* While it is read the significand is the sequence of its digits (0..9).  *)
(***************************************************************************)
DigitChars == Ch.zero..Ch.nine

\* the digits (0..9) written from i up to j - 1
DigitsOf(text, i, j) == [p \in 1..(j - i) |-> text[i + p - 1] - Ch.zero]

IsExponentMark(text, i) == i <= Len(text) /\ text[i] \in {69, 101}

\* overflow!(significand * 10 + digit, u64::MAX) does not hold
Fits(ds) == ~BigLess(U64Max, FromDigits(ds))

\* how many digits of `run` the loop adds to the significand: all of them,
\* or those before the first one that overflows
Accepted(significand, run) ==
  CHOOSE n \in 0..Len(run) :
    /\ Fits(significand \o SubSeq(run, 1, n))
    /\ (n = Len(run) \/ ~Fits(significand \o SubSeq(run, 1, n + 1)))

\* i32::saturating_add and saturating_sub of a natural number
SaturatingAdd(a, b) == IF a > 0 /\ b > I32Max - a THEN I32Max ELSE a + b

SaturatingSub(a, b) == IF a < 0 /\ b - 1 > a + I32Max THEN I32Min ELSE a - b

\* the loop of f64_from_parts: POW10.get(exponent.wrapping_abs()) is Some
\* from -308 to 308
RECURSIVE ScaledBy(_, _)
ScaledBy(f, exponent) ==
  IF exponent > -309 /\ exponent < 309 THEN
    (IF exponent >= 0 THEN FMul(f, POW10(exponent)) ELSE FDiv(f, POW10(0 - exponent)))
  ELSE IF f.m = <<>> THEN f
  ELSE IF exponent >= 0 THEN Infinite(FALSE)
  ELSE ScaledBy(FDiv(f, POW10(308)), exponent + 308)

\* an f64 read up to pos - 1: NumberOutOfRange when it is infinite
Scaled(f, positive, pos) ==
  IF f.inf THEN Fail
  ELSE [ok |-> TRUE, v |-> Number(Float(F64(~positive, f.m, f.e))), pos |-> pos]

f64_from_parts(positive, significand, exponent, pos) ==
  Scaled(ScaledBy(FromU64(significand), exponent), positive, pos)

\* What the readers below return: a number read up to pos - 1, or the
\* arguments of the call of f64_from_parts that gives it.  Every path of
\* parse_integer that reads an f64 ends in that call, and ParseNumber makes
\* it for all of them.
Read(n, pos) == [ok |-> TRUE, parts |-> FALSE, v |-> Number(n), pos |-> pos]

Parts(positive, significand, exponent, pos) ==
  [ok |-> TRUE, parts |-> TRUE, positive |-> positive,
   significand |-> significand, exponent |-> exponent, pos |-> pos]

\* parse_exponent_overflow, the digits of the exponent eaten
parse_exponent_overflow(positive, zero_significand, positive_exp, pos) ==
  IF ~zero_significand /\ positive_exp THEN Fail
  ELSE Read(Float(F64(~positive, <<>>, -1074)), pos)

\* the digits of the exponent are `run`, up to pos - 1
ExponentRead(positive, significand, starting_exp, positive_exp, run, pos) ==
  IF BigLess(Big(I32Max), FromDigits(run))
  THEN parse_exponent_overflow(positive, significand = <<>>, positive_exp, pos)
  ELSE Parts(positive, significand,
             IF positive_exp
             THEN SaturatingAdd(starting_exp, Small(FromDigits(run)))
             ELSE SaturatingSub(starting_exp, Small(FromDigits(run))),
             pos)

\* from the digits of the exponent on, j the index of the first
ExponentFrom(text, j, positive, significand, starting_exp, positive_exp) ==
  IF j > Len(text) \/ ~IsDigit(text[j]) THEN Fail
  ELSE ExponentRead(positive, significand, starting_exp, positive_exp,
                    DigitsOf(text, j, ScanPast(text, j, DigitChars)),
                    ScanPast(text, j, DigitChars))

\* parse_exponent, i the index of the e or E
parse_exponent(text, i, positive, significand, starting_exp) ==
  IF i + 1 <= Len(text) /\ text[i + 1] = 43
  THEN ExponentFrom(text, i + 2, positive, significand, starting_exp, TRUE)
  ELSE IF i + 1 <= Len(text) /\ text[i + 1] = Ch.minus
  THEN ExponentFrom(text, i + 2, positive, significand, starting_exp, FALSE)
  ELSE ExponentFrom(text, i + 1, positive, significand, starting_exp, TRUE)

\* after the digits of the number: an exponent, or the end of the number
AfterDigits(text, i, positive, significand, exponent) ==
  IF IsExponentMark(text, i)
  THEN parse_exponent(text, i, positive, significand, exponent)
  ELSE Parts(positive, significand, exponent, i)

\* the digits after the point are `run`, up to pos - 1, and the first n of
\* them go to the significand; parse_decimal_overflow leaves the others out
DecimalRead(text, positive, significand, exponent_before_decimal_point, run, n, pos) ==
  IF n = Len(run) /\ n = 0 THEN Fail
  ELSE AfterDigits(text, pos, positive,
                   FromDigits(significand \o SubSeq(run, 1, n)),
                   exponent_before_decimal_point - n)

DecimalFrom(text, positive, significand, exponent_before_decimal_point, run, pos) ==
  DecimalRead(text, positive, significand, exponent_before_decimal_point,
              run, Accepted(significand, run), pos)

\* parse_decimal, i the index of the point
parse_decimal(text, i, positive, significand, exponent_before_decimal_point) ==
  DecimalFrom(text, positive, significand, exponent_before_decimal_point,
              DigitsOf(text, i + 1, ScanPast(text, i + 1, DigitChars)),
              ScanPast(text, i + 1, DigitChars))

\* parse_long_integer: the digits from i up to j - 1 do not fit the u64 and
\* each counts as a power of ten
LongInteger(text, j, positive, significand, exponent) ==
  IF j <= Len(text) /\ text[j] = Ch.dot
  THEN parse_decimal(text, j, positive, significand, exponent)
  ELSE AfterDigits(text, j, positive, FromDigits(significand), exponent)

parse_long_integer(text, i, positive, significand) ==
  LongInteger(text, ScanPast(text, i, DigitChars), positive, significand,
              ScanPast(text, i, DigitChars) - i)

\* the integer read when no point and no exponent follows: a u64, an i64,
\* or the f64 for -0 and for what is below i64::MIN
Integer(positive, significand) ==
  IF positive THEN PosInt(significand)
  ELSE IF significand = <<>> \/ BigLess(Two63, significand)
  THEN Float([FromU64(significand) EXCEPT !.neg = TRUE])
  ELSE NegInt(significand)

\* parse_number, i the index after the digits of the significand
parse_number(text, i, positive, significand) ==
  IF i <= Len(text) /\ text[i] = Ch.dot
  THEN parse_decimal(text, i, positive, significand, 0)
  ELSE IF IsExponentMark(text, i)
  THEN parse_exponent(text, i, positive, FromDigits(significand), 0)
  ELSE Read(Integer(positive, FromDigits(significand)), i)

\* the digits from i on are `run` and the first n of them fit the u64
IntegerRead(text, i, positive, run, n) ==
  IF n < Len(run)
  THEN parse_long_integer(text, i + n, positive, SubSeq(run, 1, n))
  ELSE parse_number(text, i + n, positive, run)

IntegerFrom(text, i, positive, run) ==
  IntegerRead(text, i, positive, run, Accepted(<<>>, run))

\* parse_integer, i the index of the first digit
parse_integer(text, i, positive) ==
  IF i > Len(text) \/ ~IsDigit(text[i]) THEN Fail
  ELSE IF text[i] = Ch.zero THEN
    (IF i + 1 <= Len(text) /\ IsDigit(text[i + 1]) THEN Fail
     ELSE parse_number(text, i + 1, positive, <<>>))
  ELSE IntegerFrom(text, i, positive, DigitsOf(text, i, ScanPast(text, i, DigitChars)))

\* the number that parse_integer read
NumberRead(r) ==
  IF ~r.ok THEN Fail
  ELSE IF r.parts THEN f64_from_parts(r.positive, r.significand, r.exponent, r.pos)
  ELSE [ok |-> TRUE, v |-> r.v, pos |-> r.pos]

\* a number, from its first character (a minus sign or a digit)
ParseNumber(text, i) ==
  NumberRead(parse_integer(text, IF text[i] = Ch.minus THEN i + 1 ELSE i,
                           text[i] # Ch.minus))

ParseIdent(text, i, ident, value) ==
  IF i + Len(ident) - 1 <= Len(text) /\ SubSeq(text, i, i + Len(ident) - 1) = ident
  THEN [ok |-> TRUE, v |-> value, pos |-> i + Len(ident)]
  ELSE Fail

\* the number of [ in a row from i on.  A run of remaining_depth of them or
\* more brings remaining_depth to 0 on the way down, each [ being the first
\* element of the array before it: the reader fails, and ParseValue says so
\* without the descent.
OpeningRun(text, i) == ScanPast(text, i, {Ch.lbracket}) - i

\* a string read as a value
StringValue(s) ==
  IF s.ok THEN [ok |-> TRUE, v |-> Str(s.v), pos |-> s.pos] ELSE Fail

RECURSIVE ParseValue(_, _, _), ParseElements(_, _, _, _, _), NextElement(_, _, _, _),
          ParseMembers(_, _, _, _, _), NextKey(_, _, _, _), NextEntry(_, _, _, _, _)

\* a value, from its first character (the caller has skipped the whitespace)
ParseValue(text, i, remaining_depth) ==
  IF i > Len(text) THEN Fail
  ELSE CASE text[i] = 110 -> ParseIdent(text, i, Lit.null, Null)
         [] text[i] = 116 -> ParseIdent(text, i, Lit.true, Bool(TRUE))
         [] text[i] = 102 -> ParseIdent(text, i, Lit.false, Bool(FALSE))
         [] text[i] = Ch.minus \/ IsDigit(text[i]) -> ParseNumber(text, i)
         [] text[i] = Ch.quote ->
              StringValue(ParseString(text, i + 1, <<>>))
         [] text[i] = Ch.lbracket ->
              IF remaining_depth - 1 = 0 THEN Fail
              ELSE IF OpeningRun(text, i) >= remaining_depth THEN Fail
              ELSE ParseElements(text, i + 1, remaining_depth - 1, <<>>, TRUE)
         [] text[i] = Ch.lbrace ->
              IF remaining_depth - 1 = 0 THEN Fail
              ELSE ParseMembers(text, i + 1, remaining_depth - 1, <<>>, TRUE)
         [] OTHER -> Fail

\* the elements of an array, from the character after its [ or after an element
ParseElements(text, i, remaining_depth, acc, first) ==
  LET p == SkipWs(text, i)
  IN  IF p > Len(text) THEN Fail
      ELSE IF text[p] = Ch.rbracket THEN [ok |-> TRUE, v |-> Arr(acc), pos |-> p + 1]
      ELSE IF ~first /\ text[p] # Ch.comma THEN Fail
      ELSE LET q == IF first THEN p ELSE SkipWs(text, p + 1)
           IN  IF q > Len(text) \/ text[q] = Ch.rbracket THEN Fail
               ELSE NextElement(text, remaining_depth, acc,
                                ParseValue(text, q, remaining_depth))

\* the element e read, on to the rest of the array
NextElement(text, remaining_depth, acc, e) ==
  IF ~e.ok THEN Fail
  ELSE ParseElements(text, e.pos, remaining_depth, Append(acc, e.v), FALSE)

\* the members of an object, from the character after its { or after a member
ParseMembers(text, i, remaining_depth, acc, first) ==
  LET p == SkipWs(text, i)
  IN  IF p > Len(text) THEN Fail
      ELSE IF text[p] = Ch.rbrace THEN [ok |-> TRUE, v |-> Obj(acc), pos |-> p + 1]
      ELSE IF ~first /\ text[p] # Ch.comma THEN Fail
      ELSE LET q == IF first THEN p ELSE SkipWs(text, p + 1)
           IN  IF q > Len(text) \/ text[q] # Ch.quote THEN Fail
               ELSE NextKey(text, remaining_depth, acc, ParseString(text, q + 1, <<>>))

\* the key read, on to the colon and the value
NextKey(text, remaining_depth, acc, key) ==
  IF ~key.ok THEN Fail
  ELSE LET c == SkipWs(text, key.pos)
       IN  IF c > Len(text) \/ text[c] # Ch.colon THEN Fail
           ELSE NextEntry(text, remaining_depth, acc, key.v,
                          ParseValue(text, SkipWs(text, c + 1), remaining_depth))

\* the value e of `key` read, on to the rest of the object
NextEntry(text, remaining_depth, acc, key, e) ==
  IF ~e.ok THEN Fail
  ELSE ParseMembers(text, e.pos, remaining_depth, MapInsert(acc, key, e.v), FALSE)

\* a reader that stops after the first value and does not look at the rest
EndPrefix(text, r) == IF ~r.ok THEN Fail ELSE [ok |-> TRUE, v |-> r.v]

\* Deserializer::end: whitespace and nothing else after the value
End(text, r) ==
  IF ~r.ok THEN Fail
  ELSE IF SkipWs(text, r.pos) <= Len(text) THEN Fail
  ELSE [ok |-> TRUE, v |-> r.v]

\* serde_json::from_str: one value, whitespace around it and nothing else
from_str(text) == End(text, ParseValue(text, SkipWs(text, 1), RecursionLimit))

(***************************************************************************)
(* serde_json::to_string_pretty: the writer, with PrettyFormatter's        *)
(* indent of two spaces.                                                   *)
(***************************************************************************)
HexDigit(d) == IF d < 10 THEN 48 + d ELSE 87 + d

\* the characters written for one character of a string
Escape(c) ==
  CASE c = Ch.quote -> <<Ch.backslash, Ch.quote>>
    [] c = Ch.backslash -> <<Ch.backslash, Ch.backslash>>
    [] c = 8 -> <<Ch.backslash, 98>>
    [] c = 12 -> <<Ch.backslash, 102>>
    [] c = Ch.lf -> <<Ch.backslash, 110>>
    [] c = Ch.cr -> <<Ch.backslash, 114>>
    [] c = Ch.tab -> <<Ch.backslash, 116>>
    [] c < 32 /\ c \notin {8, 12, Ch.lf, Ch.cr, Ch.tab} ->
         <<Ch.backslash, 117, 48, 48, HexDigit(c \div 16), HexDigit(c % 16)>>
    [] OTHER -> <<c>>

\* the characters of a string from i on: the run up to the next character
\* that needs an escape is written as it is
RECURSIVE EscapeFrom(_, _)
EscapeFrom(s, i) ==
  LET j == ScanTo(s, i, Escaped)
  IN  IF j > Len(s) THEN SubSeq(s, i, Len(s))
      ELSE SubSeq(s, i, j - 1) \o Escape(s[j]) \o EscapeFrom(s, j + 1)

WriteString(s) == <<Ch.quote>> \o EscapeFrom(s, 1) \o <<Ch.quote>>

\* itoa: the digits of a natural number below 2^31
RECURSIVE Digits(_)
Digits(n) ==
  IF n < 10 THEN <<Ch.zero + n>> ELSE Append(Digits(n \div 10), Ch.zero + (n % 10))

\* the characters of a sequence of digits (0..9)
DigitText(ds) == [i \in 1..Len(ds) |-> Ch.zero + ds[i]]

\* itoa of a u64
WriteU64(u) == IF u = <<>> THEN <<Ch.zero>> ELSE DigitText(ToDigits(u))

(***************************************************************************)
(* The writer of the f64: d2d finds the shortest decimal digits that read  *)
(* back as the same f64, format64 lays them out.  v, p and l are the       *)
(* digits of the f64, of the half way to the next f64 above and of the     *)
(* half way to the next below, as whole numbers on one scale and at one    *)
(* length; d2d removes low digits from the three together.                 *)
(***************************************************************************)
Padded(ds, n) == [i \in 1..n |-> IF i <= n - Len(ds) THEN 0 ELSE ds[i - (n - Len(ds))]]

\* the digits removed: v rounded to what is kept (to even on a tie), and
\* one up when that is the lower bound and the bound is not allowed
Output(v, l, kept, vmIsTrailingZeros, acceptBounds, e10) ==
  LET n == Len(v)
      vrIsTrailingZeros == \A k \in (kept + 2)..n : v[k] = 0
      lastRemovedDigit ==
        IF kept = n THEN 0
        ELSE IF vrIsTrailingZeros /\ v[kept + 1] = 5 /\ v[kept] % 2 = 0 THEN 4
        ELSE v[kept + 1]
      up == \/ /\ SubSeq(v, 1, kept) = SubSeq(l, 1, kept)
               /\ (~acceptBounds \/ ~vmIsTrailingZeros)
            \/ lastRemovedDigit >= 5
      vr == FromDigits(SubSeq(v, 1, kept))
  IN  [mantissa |-> ToDigits(IF up THEN Plus(vr, <<1>>) ELSE vr),
       exponent |-> e10 + (n - kept)]

\* the second loop: when only zeros were removed from l, its low zeros go too
TrailingZeros(l, kept) ==
  CHOOSE z \in 0..(kept - 1) :
    /\ l[kept - z] # 0
    /\ \A k \in (kept - z + 1)..kept : l[k] = 0

Removed(v, l, kept, vmIsTrailingZeros, acceptBounds, e10) ==
  Output(v, l,
         IF vmIsTrailingZeros THEN kept - TrailingZeros(l, kept) ELSE kept,
         vmIsTrailingZeros, acceptBounds, e10)

\* the first loop: digits go while p and l differ above the lowest one kept
Common(p, l) ==
  CHOOSE c \in 0..Len(p) :
    /\ \A k \in 1..c : p[k] = l[k]
    /\ (c = Len(p) \/ p[c + 1] # l[c + 1])

Kept(p, l) == IF Common(p, l) = Len(p) THEN Len(p) ELSE Common(p, l) + 1

Shortest(v, p, l, acceptBounds, e10) ==
  Removed(Padded(v, Len(p)), Padded(l, Len(p)), Kept(p, Padded(l, Len(p))),
          /\ acceptBounds
          /\ \A k \in (Kept(p, Padded(l, Len(p))) + 1)..Len(p) :
                Padded(l, Len(p))[k] = 0,
          acceptBounds, e10)

\* a * 2^e2 as a whole number of units 10^e10, where e10 is 0 for e2 >= 0
\* and e2 otherwise
OnScale(a, e2) == IF e2 >= 0 THEN Shl(a, e2) ELSE Times5(a, 0 - e2)

UpperBound(mp, acceptBounds) == IF acceptBounds THEN mp ELSE Minus(mp, <<1>>)

\* d2d for m * 2^e, m not 0
d2d(m, e) ==
  Shortest(ToDigits(OnScale(Times(m, 4), e - 2)),
           ToDigits(UpperBound(OnScale(Plus(Times(m, 4), <<2>>), e - 2), ~IsOdd(m))),
           ToDigits(OnScale(Minus(Times(m, 4),
                                  IF m # Two52 \/ e = -1074 THEN <<2>> ELSE <<1>>),
                            e - 2)),
           ~IsOdd(m),
           IF e - 2 >= 0 THEN 0 ELSE e - 2)

\* the exponent is written with its sign, + as well as -
WriteExponent(k) ==
  IF k < 0 THEN <<Ch.minus>> \o Digits(0 - k) ELSE <<43>> \o Digits(k)

\* the layout of format64: kk is the number of digits before the point
Layout(mantissa, k, kk) ==
  IF 0 <= k /\ kk <= 16 THEN
    mantissa \o [i \in 1..k |-> Ch.zero] \o <<Ch.dot, Ch.zero>>
  ELSE IF 0 < kk /\ kk <= 16 THEN
    SubSeq(mantissa, 1, kk) \o <<Ch.dot>> \o SubSeq(mantissa, kk + 1, Len(mantissa))
  ELSE IF -5 < kk /\ kk <= 0 THEN
    <<Ch.zero, Ch.dot>> \o [i \in 1..(0 - kk) |-> Ch.zero] \o mantissa
  ELSE IF Len(mantissa) = 1 THEN
    mantissa \o <<101>> \o WriteExponent(kk - 1)
  ELSE
    <<mantissa[1], Ch.dot>> \o SubSeq(mantissa, 2, Len(mantissa))
    \o <<101>> \o WriteExponent(kk - 1)

Formatted(d) ==
  Layout(DigitText(d.mantissa), d.exponent, Len(d.mantissa) + d.exponent)

format64(f) ==
  (IF f.neg THEN <<Ch.minus>> ELSE <<>>)
  \o (IF f.m = <<>> THEN <<Ch.zero, Ch.dot, Ch.zero>> ELSE Formatted(d2d(f.m, f.e)))

\* Serialize for Number
WriteNumber(n) ==
  CASE n.k = "PosInt" -> WriteU64(n.u)
    [] n.k = "NegInt" -> <<Ch.minus>> \o WriteU64(n.u)
    [] n.k = "Float" -> format64(n.f)

Indent(level) == [i \in 1..(2 * level) |-> Ch.space]

RECURSIVE WriteValue(_, _), WriteElements(_, _, _), WriteMembers(_, _, _)

WriteValue(value, level) ==
  CASE value.t = "null" -> Lit.null
    [] value.t = "bool" -> IF value.b THEN Lit.true ELSE Lit.false
    [] value.t = "num" -> WriteNumber(value.n)
    [] value.t = "str" -> WriteString(value.s)
    [] value.t = "arr" ->
         IF value.a = <<>> THEN <<Ch.lbracket, Ch.rbracket>>
         ELSE <<Ch.lbracket>> \o WriteElements(value.a, 1, level + 1)
              \o <<Ch.lf>> \o Indent(level) \o <<Ch.rbracket>>
    [] value.t = "obj" ->
         IF value.o = <<>> THEN <<Ch.lbrace, Ch.rbrace>>
         ELSE <<Ch.lbrace>> \o WriteMembers(value.o, 1, level + 1)
              \o <<Ch.lf>> \o Indent(level) \o <<Ch.rbrace>>

WriteElements(a, i, level) ==
  IF i > Len(a) THEN <<>>
  ELSE (IF i = 1 THEN <<Ch.lf>> ELSE <<Ch.comma, Ch.lf>>)
       \o Indent(level) \o WriteValue(a[i], level)
       \o WriteElements(a, i + 1, level)

WriteMembers(o, i, level) ==
  IF i > Len(o) THEN <<>>
  ELSE (IF i = 1 THEN <<Ch.lf>> ELSE <<Ch.comma, Ch.lf>>)
       \o Indent(level) \o WriteString(o[i].k) \o <<Ch.colon, Ch.space>>
       \o WriteValue(o[i].v, level)
       \o WriteMembers(o, i + 1, level)

to_string_pretty(value) == WriteValue(value, 0)

(***************************************************************************)
(* sort_package_json                                                       *)
(***************************************************************************)
\* what one call leaves: Err, or Ok(result) with the values on the way to it
Err(text) ==
  [ok |-> FALSE, input |-> text, value |-> Null, sorted_value |-> Null,
   result |-> <<>>]

Ok(text, value, sorted_value) ==
  [ok |-> TRUE, input |-> text, value |-> value, sorted_value |-> sorted_value,
   result |-> to_string_pretty(sorted_value) \o <<Ch.lf>>]

\* a call that also sorts the objects held by a top-level array
sorted_value_elements(value) ==
  LET sorted(v) == IF v.t = "obj" THEN Obj(sort_object_keys(v.o)) ELSE v
  IN  IF value.t = "arr" THEN Arr([i \in 1..Len(value.a) |-> sorted(value.a[i])])
      ELSE sorted(value)

sorted_value(value) ==
  IF value.t = "obj" THEN Obj(sort_object_keys(value.o)) ELSE value

Returned(text, parsed) ==
  IF ~parsed.ok THEN Err(text) ELSE Ok(text, parsed.v, sorted_value(parsed.v))

sort_package_json(text) == Returned(text, from_str(text))

(***************************************************************************)
(* The inputs.  Texts are written from values by a compact writer (no      *)
(* whitespace), then varied: whitespace, a byte order mark, damage.        *)
(***************************************************************************)
MaxKeys == 3
MaxArr == 3
MaxCalls == 2
MaxDepth == 3

S ==
  [a |-> <<97>>, b |-> <<98>>, c |-> <<99>>, p |-> <<112>>, x |-> <<120>>, y |-> <<121>>,
   z |-> <<122>>, _a |-> <<95, 97>>, _b |-> <<95, 98>>,
   name |-> <<110, 97, 109, 101>>, version |-> <<118, 101, 114, 115, 105, 111, 110>>, keywords |-> <<107, 101, 121, 119, 111, 114, 100, 115>>,
   bugs |-> <<98, 117, 103, 115>>, exports |-> <<101, 120, 112, 111, 114, 116, 115>>, dependencies |-> <<100, 101, 112, 101, 110, 100, 101, 110, 99, 105, 101, 115>>,
   babel |-> <<98, 97, 98, 101, 108>>, maintainers |-> <<109, 97, 105, 110, 116, 97, 105, 110, 101, 114, 115>>, author |-> <<97, 117, 116, 104, 111, 114>>,
   url |-> <<117, 114, 108>>, email |-> <<101, 109, 97, 105, 108>>, type |-> <<116, 121, 112, 101>>, lib |-> <<108, 105, 98>>,
   host |-> <<104, 111, 115, 116>>, module_name |-> <<109, 111, 100, 117, 108, 101, 95, 110, 97, 109, 101>>,
   default |-> <<100, 101, 102, 97, 117, 108, 116>>, types |-> <<116, 121, 112, 101, 115>>, types_v |-> <<116, 121, 112, 101, 115, 64, 49>>,
   import |-> <<105, 109, 112, 111, 114, 116>>, dot |-> <<46>>, dot_x |-> <<46, 47, 120>>,
   esc |-> <<97, 34, 92, 10, 1, 47>>]

E(key, value) == [k |-> key, v |-> value]

RECURSIVE CompactElements(_, _), CompactMembers(_, _), Compact(_)

Compact(value) ==
  CASE value.t = "null" -> Lit.null
    [] value.t = "bool" -> IF value.b THEN Lit.true ELSE Lit.false
    [] value.t = "num" -> WriteNumber(value.n)
    [] value.t = "str" -> WriteString(value.s)
    [] value.t = "arr" ->
         <<Ch.lbracket>> \o CompactElements(value.a, 1) \o <<Ch.rbracket>>
    [] value.t = "obj" ->
         <<Ch.lbrace>> \o CompactMembers(value.o, 1) \o <<Ch.rbrace>>

CompactElements(a, i) ==
  IF i > Len(a) THEN <<>>
  ELSE (IF i = 1 THEN <<>> ELSE <<Ch.comma>>) \o Compact(a[i])
       \o CompactElements(a, i + 1)

\* the members are written as listed, a repeated key included
CompactMembers(o, i) ==
  IF i > Len(o) THEN <<>>
  ELSE (IF i = 1 THEN <<>> ELSE <<Ch.comma>>)
       \o WriteString(o[i].k) \o <<Ch.colon>> \o Compact(o[i].v)
       \o CompactMembers(o, i + 1)

SeqsUpTo(set, n) == UNION {[1..m -> set] : m \in 0..n}

\* sample values: scalars of each type, arrays and objects out of order
ObjBA == Obj(<<E(S.b, Num(1)), E(S.a, Num(2))>>)
ObjNested ==
  Obj(<<E(S.z, Num(1)),
        E(S.b, Obj(<<E(S.y, Null), E(S.x, Arr(<<Str(S.b), Str(S.a)>>))>>)),
        E(S.a, Bool(TRUE))>>)
ObjContact ==
  Obj(<<E(S.x, Num(1)), E(S.email, Str(S.b)), E(S.name, Str(S.a)),
        E(S.type, Str(S.c)), E(S.lib, Null), E(S.url, Str(S.a)),
        E(S.host, Num(2)), E(S.module_name, Num(3))>>)
ObjExports ==
  Obj(<<E(S.default, Str(S.a)), E(S.import, ObjBA), E(S.types_v, Str(S.c)),
        E(S.dot_x, Obj(<<E(S.default, Str(S.a)), E(S.types, Str(S.b)),
                         E(S.dot, ObjBA)>>)),
        E(S.types, Str(S.b)), E(S.dot, Str(S.a)), E(S.b, Num(1))>>)
ArrStrings == Arr(<<Str(S.b), Str(S.a), Str(S.b)>>)
ArrMixed == Arr(<<Str(S.b), Num(1), Str(S.a), Num(1), Null, Str(S.b), ObjBA>>)
ArrPeople == Arr(<<ObjContact, Str(S.a), ObjBA, Num(1)>>)

ShapeValues ==
  {Str(S.a), Str(S.esc), Num(12), Num(0), Bool(FALSE), Null, Arr(<<>>), Obj(<<>>),
   ArrStrings, ArrMixed, ArrPeople, ObjBA, ObjNested, ObjContact, ObjExports}

\* the keys of the manifests: recognized fields with and without a
\* transform, unrecognized keys, keys that start with an underscore
PoolKeys ==
  {S.name, S.keywords, S.bugs, S.a, S.z, S._a, S._b}

PoolValue(key) ==
  CASE key = S.name -> Str(S.p)
    [] key = S.keywords -> ArrStrings
    [] key = S.bugs -> ObjContact
    [] key = S.exports -> ObjExports
    [] key = S.a -> Str(S.esc)
    [] key = S.z -> ObjBA
    [] key = S._a -> Num(3)
    [] key = S._b -> ArrMixed

\* objects of up to MaxKeys members in every order, a key possibly repeated
PoolManifests ==
  {Obj([i \in 1..Len(ks) |-> E(ks[i], PoolValue(ks[i]))]) :
     ks \in SeqsUpTo(PoolKeys, MaxKeys)}

\* every recognized field and three other keys, with a value of every shape
ShapeKeys == {KnownFields[i].key : i \in 1..Len(KnownFields)} \cup {S.a, S._a}
ShapeManifests == {Obj(<<E(key, v)>>) : key \in ShapeKeys, v \in ShapeValues}

\* arrays of up to MaxArr elements, strings (repeated or not) and others
ArrayElements == {Str(S.a), Str(S.b), Num(1), ObjBA}
UniqueFields ==
  {KnownFields[i].key : i \in {j \in 1..Len(KnownFields) :
                                 KnownFields[j].transform = "unique"}}
ArrayManifests ==
  {Obj(<<E(key, Arr(a))>>) : key \in UniqueFields, a \in SeqsUpTo(ArrayElements, MaxArr)}

\* the same texts with whitespace around every structural character
RECURSIVE LooseElements(_, _), LooseMembers(_, _), Loose(_)

Ws == <<Ch.space, Ch.tab, Ch.cr, Ch.lf>>

Loose(value) ==
  CASE value.t \in {"null", "bool", "num", "str"} -> Compact(value)
    [] value.t = "arr" ->
         <<Ch.lbracket>> \o Ws \o LooseElements(value.a, 1) \o <<Ch.rbracket>>
    [] value.t = "obj" ->
         <<Ch.lbrace>> \o Ws \o LooseMembers(value.o, 1) \o <<Ch.rbrace>>

LooseElements(a, i) ==
  IF i > Len(a) THEN <<>>
  ELSE (IF i = 1 THEN <<>> ELSE <<Ch.comma>> \o Ws) \o Loose(a[i]) \o Ws
       \o LooseElements(a, i + 1)

LooseMembers(o, i) ==
  IF i > Len(o) THEN <<>>
  ELSE (IF i = 1 THEN <<>> ELSE <<Ch.comma>> \o Ws)
       \o WriteString(o[i].k) \o Ws \o <<Ch.colon>> \o Ws \o Loose(o[i].v) \o Ws
       \o LooseMembers(o, i + 1)

\* arrays nested `depth` deep: [[..[]..]]
Nested(depth) ==
  [i \in 1..(2 * depth) |-> IF i <= depth THEN Ch.lbracket ELSE Ch.rbracket]

VariantValues ==
  {Obj(<<>>), Arr(<<>>), Str(S.esc), Num(12), Num(-7), Null, Bool(TRUE),
   Obj(<<E(S.version, Num(1)), E(S.name, Str(S.p))>>),
   Obj(<<E(S.z, ObjBA), E(S.keywords, ArrStrings), E(S._a, Null)>>),
   Arr(<<ObjBA, Str(S.b), Str(S.a), Str(S.b)>>),
   ObjNested}

Containers == {v \in VariantValues : v.t \in {"arr", "obj"}}

\* the examples of the specification and of tests/integration_test.rs
Examples ==
  {Obj(<<E(S.version, Str(S.x)), E(S.name, Str(S.x))>>),
   Obj(<<E(S.name, Str(S.p)), E(S.keywords, ArrStrings)>>),
   Obj(<<E(S.name, Str(S.p)),
         E(S.keywords, Arr(<<Str(S.x), Str(S.x), Num(123), Num(123), Bool(TRUE),
                             Bool(TRUE), Null, Null>>))>>),
   Obj(<<E(S.exports,
           Obj(<<E(S.x, Str(S.x)),
                 E(S.dot, Obj(<<E(S.default, Str(S.a)), E(S.types, Str(S.b))>>))>>))>>),
   Obj(<<E(S._b, Num(1)), E(S.z, Num(2)), E(S._a, Num(3)), E(S.name, Str(S.p))>>),
   Obj(<<E(S.name, Str(S.p)), E(S.version, Num(123)),
         E(S.dependencies, Str(S.x)), E(S.keywords, Str(S.y))>>)}

\* number literals that the reader keeps as an f64: integers beyond the u64
\* and below the i64, -0, a fraction, exponents, and a literal whose f64 is
\* written with digits that read back as another f64
NumberLiterals ==
  {<<49, 56, 52, 52, 54, 55, 52, 52, 48, 55, 51, 55, 48, 57, 53, 53, 49, 54, 49, 54>>,   \* 18446744073709551616
   <<45, 57, 50, 50, 51, 51, 55, 50, 48, 51, 54, 56, 53, 52, 55, 55, 53, 56, 48, 57>>,   \* -9223372036854775809
   <<45, 48>>,   \* -0
   <<49, 46, 53>>,   \* 1.5
   <<49, 69, 43, 50>>,   \* 1E+2
   <<50, 53, 101, 45, 55>>,   \* 25e-7
   <<53, 101, 51, 50>>}   \* 5e32

Member(key, text) == WriteString(key) \o <<Ch.colon>> \o text

\* each literal alone, in an array, and in a manifest as the value of a
\* recognized field, of an unrecognized key and inside a private key's array
NumberTexts ==
  NumberLiterals
  \cup {<<Ch.lbracket>> \o t \o <<Ch.comma>> \o t \o <<Ch.rbracket>> : t \in NumberLiterals}
  \cup {<<Ch.lbrace>> \o Member(S.z, t) \o <<Ch.comma>> \o Member(S.keywords, t)
         \o <<Ch.comma>> \o Member(S._a, <<Ch.lbracket>> \o t \o <<Ch.rbracket>>)
         \o <<Ch.rbrace>> : t \in NumberLiterals}

\* a string written with escapes of the two halves of one character
PairText == <<34, 97, 92, 117, 100, 56, 51, 100, 92, 117, 100, 101, 48, 48, 92, 117, 48, 48, 101, 57, 34>>   \* "a\ud83d\ude00\u00e9"

\* JSON by construction with a number beyond the f64: 1e400, and a 1 with
\* 309 zeros after it
RangeLiterals ==
  {<<49, 101, 52, 48, 48>>, <<45, 49, 101, 52, 48, 48>>,
   [i \in 1..310 |-> IF i = 1 THEN Ch.zero + 1 ELSE Ch.zero]}

RangeTexts ==
  RangeLiterals
  \cup {<<Ch.lbrace>> \o Member(S.z, t) \o <<Ch.rbrace>> : t \in RangeLiterals}

\* JSON by construction with an escape of half a character
SurrogateTexts ==
  {<<34, 92, 117, 100, 56, 51, 100, 34>>,               \* "\ud83d"
   <<34, 92, 117, 100, 101, 48, 48, 34>>,               \* "\ude00"
   <<34, 92, 117, 100, 56, 51, 100, 92, 117, 48, 48, 52, 49, 34>>,   \* "\ud83d\u0041"
   <<34, 92, 117, 100, 56, 51, 100, 120, 34>>}          \* "\ud83dx"

\* texts that are JSON by construction
JsonTexts ==
  {Compact(v) : v \in PoolManifests \cup ShapeManifests \cup ArrayManifests
                       \cup VariantValues \cup Examples}
  \cup {Loose(v) : v \in VariantValues}
  \cup {Ws \o Compact(v) \o Ws : v \in VariantValues}
  \cup {to_string_pretty(v) : v \in VariantValues}
  \cup {Nested(MaxDepth), PairText}
  \cup NumberTexts

\* JSON by construction, nested deeper than the reader allows
DeepTexts == {Nested(RecursionLimit), Nested(RecursionLimit + 1)}

\* JSON by construction behind a byte order mark
BomTexts == {<<Ch.bom>> \o Compact(v) : v \in VariantValues}

\* texts that are not JSON by construction
DamagedTexts ==
  {<<>>, Ws, <<Ch.zero, 49>>, <<Ch.minus>>, <<110, 117, 108>>, <<Ch.quote, 97>>,
   <<Ch.quote, Ch.backslash, 120, Ch.quote>>, <<Ch.quote, Ch.lf, Ch.quote>>,
   <<Ch.lbrace, 97, Ch.colon, 49, Ch.rbrace>>,
   <<Ch.lbrace, Ch.quote, 97, Ch.quote, 49, Ch.rbrace>>,
   <<Ch.lbrace, Ch.quote, 97, Ch.quote, Ch.colon, Ch.rbrace>>,
   <<Ch.lbrace, Ch.quote, 97, Ch.quote, Ch.colon, 49, Ch.comma, Ch.rbrace>>,
   <<Ch.lbracket, 49, Ch.comma, Ch.rbracket>>, <<Ch.lbracket, Ch.comma, Ch.rbracket>>,
   <<Ch.lbracket, 49, Ch.space, 50, Ch.rbracket>>, <<Ch.lbracket, 49, Ch.rbrace>>}
  \cup {SubSeq(Compact(v), 1, Len(Compact(v)) - 1) : v \in Containers \cup {Str(S.esc)}}
  \cup {Tail(Compact(v)) : v \in Containers \cup {Str(S.esc)}}
  \cup {Compact(v) \o <<Ch.rbrace>> : v \in VariantValues}
  \cup {Compact(v) \o Ws \o Compact(v) : v \in VariantValues}

InputCases ==
  {[text |-> t, form |-> "json"] : t \in JsonTexts}
  \cup {[text |-> t, form |-> "deep"] : t \in DeepTexts}
  \cup {[text |-> t, form |-> "range"] : t \in RangeTexts}
  \cup {[text |-> t, form |-> "surrogate"] : t \in SurrogateTexts}
  \cup {[text |-> t, form |-> "bom"] : t \in BomTexts}
  \cup {[text |-> t, form |-> "damaged"] : t \in DamagedTexts}

(***************************************************************************)
(* The state machine: sort_package_json is called on the input, then on    *)
(* its own result.                                                         *)
(***************************************************************************)
Init ==
  /\ \E c \in InputCases : input = c.text /\ form = c.form
  /\ calls = <<>>
  /\ NotStarted

NextInput == IF calls = <<>> THEN input ELSE calls[Len(calls)].result

\* a call as the tests see it: what it returned, and the result read back
\* with serde_json::from_str(&result)
Observed(returned) ==
  [ok |-> returned.ok, input |-> returned.input, value |-> returned.value,
   sorted_value |-> returned.sorted_value, result |-> returned.result,
   parsed |-> IF returned.ok THEN from_str(returned.result) ELSE Fail]

Call ==
  /\ Len(calls) < MaxCalls
  /\ IF calls = <<>> THEN TRUE ELSE calls[Len(calls)].ok
  /\ calls' = Append(calls, Observed(sort_package_json(NextInput)))
  /\ UNCHANGED <<input, form, wrapper>>

Next == Call

Spec == Init /\ [][Next]_vars

\* two recognized fields, every pair of them in both orders
FieldPairs ==
  {Obj(<<E(KnownFields[i].key, Num(i)), E(KnownFields[j].key, Num(j))>>) :
     i, j \in 1..Len(KnownFields)}

InitFields ==
  /\ input \in {Compact(v) : v \in FieldPairs \cup PoolManifests}
  /\ form = "json"
  /\ calls = <<>>
  /\ NotStarted

SpecFields == InitFields /\ [][Next]_vars

(***************************************************************************)
(* The claims                                                              *)
(***************************************************************************)
Called == Len(calls) >= 1

First == calls[1]

\* C1: idempotence: sort_package_json applied to its own output returns that
\* output again, character for character (the second call succeeds, and so
\* does every later one, with the text of the call before it).
C1_Idempotent ==
  \A i \in 2..Len(calls) : calls[i].ok /\ calls[i].result = calls[i - 1].result

\* the first call read an object: the manifest, and the object it put out
IsManifest == Called /\ First.ok /\ First.value.t = "obj"

TopIn == First.value.o

\* the output as the tests read it: serde_json::from_str(&result)
TopOut == First.parsed.v.o

\* the value of a key in the object that went to the serializer
Emitted(key) == Get(First.sorted_value.o, key)

\* `read` is `written` as a reader finds it in the text the serializer wrote
\* for it: the same value, where an f64 is read as an f64 (its digits are
\* the shortest that tell it from the next f64, and the reader can take them
\* for one of those: the subject of C1)
RECURSIVE ReadsAs(_, _)
ReadsAs(written, read) ==
  CASE written.t = "num" /\ read.t = "num" /\ written.n.k = "Float" ->
         read.n.k = "Float"
    [] written.t = "arr" /\ read.t = "arr" ->
         /\ Len(read.a) = Len(written.a)
         /\ \A i \in 1..Len(written.a) : ReadsAs(written.a[i], read.a[i])
    [] written.t = "obj" /\ read.t = "obj" ->
         /\ Len(read.o) = Len(written.o)
         /\ \A i \in 1..Len(written.o) :
              /\ read.o[i].k = written.o[i].k
              /\ ReadsAs(written.o[i].v, read.o[i].v)
    [] OTHER -> read = written

Occurrences(o, key) == Cardinality({i \in 1..Len(o) : o[i].k = key})

IsStr(v) == v.t = "str"

NotStr(v) == v.t # "str"

StringsOf(a) == {a[i].s : i \in {j \in 1..Len(a) : IsStr(a[j])}}

\* C2: every top-level key of the input object is in exactly one of the
\* three buckets, the bucket sizes add up to the number of input keys, and
\* the output object has exactly the input's keys, each once.
C2_KeysPreserved ==
  IsManifest =>
    /\ Len(KnownOf(TopIn)) + Len(NonPrivateOf(TopIn)) + Len(PrivateOf(TopIn))
         = Len(TopIn)
    /\ \A i \in 1..Len(TopIn) :
         Occurrences(KnownOf(TopIn), TopIn[i].k)
           + Occurrences(NonPrivateOf(TopIn), TopIn[i].k)
           + Occurrences(PrivateOf(TopIn), TopIn[i].k) = 1
    /\ Len(TopOut) = Len(TopIn)
    /\ \A i \in 1..Len(TopIn) : Occurrences(TopOut, TopIn[i].k) = 1
    /\ \A j \in 1..Len(TopOut) : HasKey(TopIn, TopOut[j].k)

\* C2 witness: an object with a key in each of the three buckets went
\* through the classifier.
C2_Witness ==
  /\ IsManifest
  /\ Len(KnownOf(TopIn)) >= 1
  /\ Len(NonPrivateOf(TopIn)) >= 1
  /\ Len(PrivateOf(TopIn)) >= 1
  /\ Len(TopOut) = 3

\* x is y up to the order of object keys, the order of the strings of an
\* array and the collapsing of repeated equal strings of an array
RECURSIVE Preserved(_, _)
Preserved(x, y) ==
  IF x.t # y.t THEN FALSE
  ELSE CASE x.t = "obj" ->
              /\ Len(y.o) = Len(x.o)
              /\ \A i \in 1..Len(x.o) :
                   /\ Occurrences(y.o, x.o[i].k) = 1
                   /\ Preserved(x.o[i].v, Get(y.o, x.o[i].k))
         [] x.t = "arr" ->
              LET others_x == SelectSeq(x.a, NotStr)
                  others_y == SelectSeq(y.a, NotStr)
              IN  /\ StringsOf(y.a) = StringsOf(x.a)
                  /\ Len(SelectSeq(y.a, IsStr)) <= Len(SelectSeq(x.a, IsStr))
                  /\ Len(others_y) = Len(others_x)
                  /\ \A i \in 1..Len(others_x) : Preserved(others_x[i], others_y[i])
         [] OTHER -> x = y

\* C3: no data loss in values: the output value of every top-level key is
\* the input value up to the order of object keys and the sorting and
\* collapsing of repeated equal strings in arrays.
C3_NoDataLoss ==
  IsManifest =>
    \A i \in 1..Len(TopIn) :
      /\ HasKey(TopOut, TopIn[i].k)
      /\ Preserved(TopIn[i].v, Get(TopOut, TopIn[i].k))

\* the fields the specification binds to sort-unique-array
SortUniqueArrayFields ==
  {<<99, 97, 116, 101, 103, 111, 114, 105, 101, 115>>,          \* categories
   <<107, 101, 121, 119, 111, 114, 100, 115>>,                  \* keywords
   <<102, 105, 108, 101, 115>>,                                 \* files
   <<97, 99, 116, 105, 118, 97, 116, 105, 111, 110, 69, 118, 101, 110, 116,
     115>>,                                                     \* activationEvents
   <<98, 117, 110, 100, 108, 101, 100, 68, 101, 112, 101, 110, 100, 101, 110,
     99, 105, 101, 115>>,                                       \* bundledDependencies
   <<98, 117, 110, 100, 108, 101, 68, 101, 112, 101, 110, 100, 101, 110, 99,
     105, 101, 115>>,                                           \* bundleDependencies
   <<101, 120, 116, 101, 110, 115, 105, 111, 110, 80, 97, 99, 107>>,   \* extensionPack
   <<101, 120, 116, 101, 110, 115, 105, 111, 110, 68, 101, 112, 101, 110, 100,
     101, 110, 99, 105, 101, 115>>}                             \* extensionDependencies

\* the top-level entries of the input that sort-unique-array applies to
ArrayEntries ==
  {i \in 1..Len(TopIn) :
     TopIn[i].k \in SortUniqueArrayFields /\ TopIn[i].v.t = "arr"}

\* C4: array transform law: the result of sort-unique-array on a has as many
\* elements as a has distinct strings plus non-string elements, and the
\* non-string elements of a are its suffix, in their order.
C4_ArrayLaw ==
  IsManifest =>
    \A i \in ArrayEntries :
      LET a == TopIn[i].v.a
          r == Get(TopOut, TopIn[i].k)
          others == SelectSeq(a, NotStr)
      IN  /\ r.t = "arr"
          /\ Len(r.a) = Cardinality(StringsOf(a)) + Len(others)
          /\ SubSeq(r.a, Len(r.a) - Len(others) + 1, Len(r.a)) = others

\* C5: the strings of the result of sort-unique-array on a are the distinct
\* strings of a, each once, strictly ascending, before every non-string
\* element of the result.
C5_SortedUniqueStrings ==
  IsManifest =>
    \A i \in ArrayEntries :
      LET a == TopIn[i].v.a
          r == Get(TopOut, TopIn[i].k)
          strings == SelectSeq(r.a, IsStr)
      IN  /\ r.t = "arr"
          /\ StringsOf(r.a) = StringsOf(a)
          /\ \A m, n \in 1..Len(strings) : m < n => StrLess(strings[m].s, strings[n].s)
          /\ \A m, n \in 1..Len(r.a) : m < n => ~(NotStr(r.a[m]) /\ IsStr(r.a[n]))

\* C5 witness: sort-unique-array ran on an array with a repeated string,
\* strings out of order and a non-string element, and put out two strings.
C5_Witness ==
  /\ IsManifest
  /\ \E i \in ArrayEntries :
       LET a == TopIn[i].v.a
       IN  /\ Len(a) >= 3
           /\ Len(SelectSeq(a, IsStr)) > Cardinality(StringsOf(a))
           /\ \E m, n \in 1..Len(a) :
                m < n /\ IsStr(a[m]) /\ IsStr(a[n]) /\ StrLess(a[n].s, a[m].s)
           /\ \E m \in 1..Len(a) : NotStr(a[m])
           /\ Len(SelectSeq(Get(TopOut, TopIn[i].k).a, IsStr)) = 2


\* the place of `key` in the object o
Position(o, key) == CHOOSE i \in 1..Len(o) : o[i].k = key

\* C6: priority ordering: of any two recognized fields of the input object,
\* the one with the smaller index stands strictly before the other in the
\* output, whatever their order in the input.
C6_PriorityOrder ==
  IsManifest =>
    \A i, j \in 1..Len(TopIn) :
      (/\ IsKnown(TopIn[i].k)
       /\ IsKnown(TopIn[j].k)
       /\ FieldOf(TopIn[i].k).index < FieldOf(TopIn[j].k).index)
      => /\ HasKey(TopOut, TopIn[i].k)
         /\ HasKey(TopOut, TopIn[j].k)
         /\ Position(TopOut, TopIn[i].k) < Position(TopOut, TopIn[j].k)

\* C6 witness: two recognized fields came in with the larger index first and
\* went out with the smaller index first.
C6_Witness ==
  /\ IsManifest
  /\ \E i, j \in 1..Len(TopIn) :
       /\ i < j
       /\ IsKnown(TopIn[i].k)
       /\ IsKnown(TopIn[j].k)
       /\ FieldOf(TopIn[j].k).index < FieldOf(TopIn[i].k).index
       /\ Position(TopOut, TopIn[j].k) < Position(TopOut, TopIn[i].k)

\* the bucket of a key: 1 known, 2 unknown and public, 3 unknown and private
Bucket(key) ==
  IF IsKnown(key) THEN 1
  ELSE IF starts_with(key, <<Ch.underscore>>) THEN 3
  ELSE 2

\* Example 5 of the specification: {"_b":1,"z":2,"_a":3,"name":"p"}
Example5 ==
  Obj(<<E(S._b, Num(1)), E(S.z, Num(2)), E(S._a, Num(3)), E(S.name, Str(S.p))>>)

\* C7: bucket ordering: in the output object the known keys stand before the
\* unknown public keys and these before the unknown private keys; the public
\* keys are strictly ascending and so are the private keys; Example 5 goes
\* out in the order name, z, _a, _b.
C7_BucketOrder ==
  IsManifest =>
    /\ \A m, n \in 1..Len(TopOut) :
         m < n =>
           /\ Bucket(TopOut[m].k) <= Bucket(TopOut[n].k)
           /\ (Bucket(TopOut[m].k) = Bucket(TopOut[n].k) /\ Bucket(TopOut[m].k) > 1)
              => StrLess(TopOut[m].k, TopOut[n].k)
    /\ input = Compact(Example5) => Keys(TopOut) = <<S.name, S.z, S._a, S._b>>

\* C7 witness: Example 5 went through, and its output has the order
\* name, z, _a, _b.
C7_Witness ==
  /\ IsManifest
  /\ input = Compact(Example5)
  /\ Keys(TopIn) = <<S._b, S.z, S._a, S.name>>
  /\ Keys(TopOut) = <<S.name, S.z, S._a, S._b>>


\* C8: BOM preservation: a text that begins with the byte order mark is
\* canonicalized with success and the output begins with the mark; the
\* output of a text that does not begin with it does not begin with it.
C8_BomPreserved ==
  Called =>
    /\ starts_with(input, <<Ch.bom>>) =>
         First.ok /\ starts_with(First.result, <<Ch.bom>>)
    /\ (~starts_with(input, <<Ch.bom>>) /\ First.ok) =>
         ~starts_with(First.result, <<Ch.bom>>)

\* the transforms that take an object, and those that take an array
ObjectTransforms == {"alpha", "recursive", "order", "people", "exports"}

ArrayTransforms == {"unique", "people_array"}

\* the entry holds a recognized field with a transform, and a value of
\* another type than the transform takes
Mismatched(entry) ==
  /\ IsKnown(entry.k)
  /\ \/ FieldOf(entry.k).transform \in ObjectTransforms /\ entry.v.t # "obj"
     \/ FieldOf(entry.k).transform \in ArrayTransforms /\ entry.v.t # "arr"

\* C9: shape mismatches are tolerated: a JSON text is canonicalized with
\* success, and the value of every recognized field with a transform that
\* holds a value of another type than the transform takes is in the output
\* unchanged.
C9_ShapeMismatch ==
  (Called /\ form = "json") =>
    /\ First.ok
    /\ First.value.t = "obj" =>
         \A i \in 1..Len(TopIn) :
           Mismatched(TopIn[i]) =>
             /\ HasKey(TopOut, TopIn[i].k)
             /\ Emitted(TopIn[i].k) = TopIn[i].v
             /\ ReadsAs(TopIn[i].v, Get(TopOut, TopIn[i].k))

\* C9 witness: an object-transform field holding a non-empty array went out
\* unchanged.
C9_Witness ==
  /\ IsManifest
  /\ \E i \in 1..Len(TopIn) :
       /\ Mismatched(TopIn[i])
       /\ FieldOf(TopIn[i].k).transform \in ObjectTransforms
       /\ TopIn[i].v.t = "arr"
       /\ TopIn[i].v.a # <<>>
       /\ Get(TopOut, TopIn[i].k) = TopIn[i].v


\* the forms of input that are well-formed JSON: the texts the reader takes,
\* and the texts it refuses for their depth, for a number beyond the f64 or
\* for an escape of half a character
WellFormed == {"json", "deep", "range", "surrogate"}

\* the call returned a complete text or nothing: Ok with the whole sorted
\* value written out and a line feed at the end, or Err with no text
WholeOrNothing ==
  IF First.ok
  THEN /\ First.result # <<>>
       /\ First.result[Len(First.result)] = Ch.lf
       /\ First.parsed.ok
       /\ ReadsAs(First.sorted_value, First.parsed.v)
  ELSE First.result = <<>>

\* C10 as stated: sort_package_json returns an error exactly when the text
\* is not well-formed JSON, and a complete canonical text for every
\* well-formed JSON text; never both, never a truncated text.
C10_ParseErrorOnly ==
  Called => /\ First.ok <=> form \in WellFormed
            /\ WholeOrNothing

\* C10 amended: sort_package_json returns an error exactly when
\* serde_json::from_str rejects the text, which it does for text that is not
\* well-formed JSON and for well-formed JSON whose arrays and objects nest
\* RecursionLimit deep or deeper, that holds a number beyond the f64, or
\* that holds a \u escape of half a surrogate pair; for every other text it
\* returns the complete canonical text; never both, never a truncated text.
C10_ReaderErrorOnly ==
  Called => /\ First.ok <=> form = "json"
            /\ WholeOrNothing

\* C10 witness: well-formed JSON nested RecursionLimit deep was rejected and
\* nothing was returned.
C10_Witness ==
  /\ Called
  /\ input = Nested(RecursionLimit)
  /\ form = "deep"
  /\ ~First.ok
  /\ First.result = <<>>

IsUnknown(key) == ~IsKnown(key)

IsContainer(v) == v.t \in {"arr", "obj"}

\* C11: a top-level key outside the recognized-field table, public or
\* private, comes out with the value it had in the input: same type, same
\* nested key order, same array elements in the same order, at every depth.
C11_UnknownValuesKept ==
  IsManifest =>
    \A i \in 1..Len(TopIn) :
      IsUnknown(TopIn[i].k) =>
        /\ Occurrences(TopOut, TopIn[i].k) = 1
        /\ Emitted(TopIn[i].k) = TopIn[i].v
        /\ ReadsAs(TopIn[i].v, Get(TopOut, TopIn[i].k))

\* an unrecognized public key holding an object whose keys are out of order
\* and an unrecognized private key holding an array with repeated and mixed
\* elements, both written as they were read
C11_Witness ==
  /\ IsManifest
  /\ \E i, j \in 1..Len(TopIn) :
       /\ IsUnknown(TopIn[i].k) /\ ~starts_with(TopIn[i].k, <<Ch.underscore>>)
       /\ TopIn[i].v.t = "obj"
       /\ TopIn[i].v.o # sort_object_recursive(TopIn[i].v.o)
       /\ Get(TopOut, TopIn[i].k) = TopIn[i].v
       /\ IsUnknown(TopIn[j].k) /\ starts_with(TopIn[j].k, <<Ch.underscore>>)
       /\ TopIn[j].v.t = "arr"
       /\ TopIn[j].v.a # sort_array_unique(TopIn[j].v.a)
       /\ Get(TopOut, TopIn[j].k) = TopIn[j].v

(***************************************************************************)
(* Two manifests with the same entries in a different order: the second    *)
(* call is given the first input with its top-level entries permuted.      *)
(***************************************************************************)
OrderKeys == {S.name, S.keywords, S.a, S.z, S._a, S._b}

\* objects of up to MaxKeys members, no key repeated, in every order
OrderManifests ==
  {Obj([i \in 1..Len(ks) |-> E(ks[i], PoolValue(ks[i]))]) :
     ks \in {s \in SeqsUpTo(OrderKeys, MaxKeys) :
               \A i, j \in 1..Len(s) : s[i] = s[j] => i = j}}

InitOrder ==
  /\ input \in {Compact(v) : v \in OrderManifests}
  /\ form = "json"
  /\ calls = <<>>
  /\ NotStarted

Reordered(o, p) == [i \in 1..Len(o) |-> o[p[i]]]

CallReordered ==
  /\ Len(calls) = 1
  /\ Len(calls) < MaxCalls
  /\ First.ok
  /\ First.value.t = "obj"
  /\ \E p \in Permutations(1..Len(TopIn)) :
       /\ Reordered(TopIn, p) # TopIn
       /\ calls' = Append(calls, Observed(sort_package_json(
                                   Compact(Obj(Reordered(TopIn, p))))))
  /\ UNCHANGED <<input, form, wrapper>>

NextOrder == Call \/ CallReordered

SpecOrder == InitOrder /\ [][NextOrder]_vars

\* the same key -> value mapping, whatever the order of the entries
SameMapping(x, y) ==
  /\ x.t = "obj" /\ y.t = "obj"
  /\ Len(x.o) = Len(y.o)
  /\ \A i \in 1..Len(x.o) :
       /\ Occurrences(x.o, x.o[i].k) = 1
       /\ Occurrences(y.o, x.o[i].k) = 1
       /\ Get(y.o, x.o[i].k) = x.o[i].v

\* C12: the output depends on the top-level key -> value mapping only: an
\* input whose top-level object holds the same keys with the same values in
\* another order yields the same output text, character for character.
C12_OrderIndependent ==
  \A i \in 2..Len(calls) :
    (First.ok /\ calls[i].ok /\ SameMapping(calls[i].value, First.value))
      => calls[i].result = First.result

\* a recognized, an unrecognized and a private key given in two different
\* orders, with one output
C12_Witness ==
  /\ Len(calls) >= 2
  /\ First.ok /\ calls[2].ok
  /\ SameMapping(calls[2].value, First.value)
  /\ calls[2].value # First.value
  /\ Len(TopIn) = 3
  /\ Len(KnownOf(TopIn)) = 1 /\ Len(PrivateOf(TopIn)) = 1
  /\ calls[2].result = First.result

\* C13: a top-level value that is not an object (array, string, number,
\* boolean, null) skips every transform: the result is that value written by
\* the serializer, its nested content in the order of the input.
C13_NonObjectUnchanged ==
  (Called /\ First.ok /\ First.value.t # "obj") =>
    /\ First.sorted_value = First.value
    /\ First.result = to_string_pretty(First.value) \o <<Ch.lf>>
    /\ First.parsed.ok
    /\ ReadsAs(First.value, First.parsed.v)

\* a top-level array that holds an object with its keys out of order and a
\* repeated string, written as it was read
C13_Witness ==
  /\ Called /\ First.ok
  /\ First.value.t = "arr"
  /\ \E i \in 1..Len(First.value.a) :
       /\ First.value.a[i].t = "obj"
       /\ First.value.a[i].o # sort_object_keys(First.value.a[i].o)
  /\ First.value.a # sort_array_unique(First.value.a)
  /\ First.parsed.v = First.value

(***************************************************************************)
(* The entry point with options, sort_package_json_with_options(text,      *)
(* &SortOptions { pretty, .. }), as tests/integration_test.rs calls it.    *)
(* Its body is not in src/src/lib.rs: the two renderings and the rule on   *)
(* the byte order mark are those of section 4.4 of the specification, over *)
(* the value sort_package_json builds.  A mark at the head of the text is  *)
(* taken off before the text is read and put back before what is written.  *)
(***************************************************************************)
HasBom(text) == text # <<>> /\ text[1] = Ch.bom

Stripped(text) == IF HasBom(text) THEN Tail(text) ELSE text

Rendered(sorted, pretty) ==
  IF pretty THEN to_string_pretty(sorted) \o <<Ch.lf>> ELSE Compact(sorted)

OkWith(text, value, sorted, pretty) ==
  [ok |-> TRUE, input |-> text, value |-> value, sorted_value |-> sorted,
   result |-> (IF HasBom(text) THEN <<Ch.bom>> ELSE <<>>) \o Rendered(sorted, pretty)]

ReturnedWith(text, parsed, pretty) ==
  IF ~parsed.ok THEN Err(text)
  ELSE OkWith(text, parsed.v, sorted_value(parsed.v), pretty)

sort_package_json_with_options(text, pretty) ==
  ReturnedWith(text, from_str(Stripped(text)), pretty)

\* what a call with options leaves, and the mode it was made in
ObservedWith(returned, pretty) ==
  [ok |-> returned.ok, input |-> returned.input, value |-> returned.value,
   sorted_value |-> returned.sorted_value, result |-> returned.result,
   parsed |-> IF returned.ok THEN from_str(Stripped(returned.result)) ELSE Fail,
   pretty |-> pretty]

\* strings with whitespace and quotes of their own
SpacedValues ==
  {Str(<<Ch.space, Ch.quote, Ch.space>>),
   Obj(<<E(<<122, Ch.space, 122>>, Str(<<Ch.backslash, Ch.quote, Ch.tab>>)),
         E(S.name, Arr(<<Str(<<Ch.space>>), Obj(<<>>), Arr(<<>>)>>))>>)}

OptionValues == VariantValues \cup Examples \cup SpacedValues

OptionTexts ==
  {Compact(v) : v \in OptionValues} \cup {Loose(v) : v \in OptionValues}
  \cup {to_string_pretty(v) \o <<Ch.lf>> : v \in OptionValues}
  \cup DamagedTexts
  \cup BomTexts \cup {<<Ch.bom>> \o t : t \in DamagedTexts}

InitOptions ==
  /\ input \in OptionTexts
  /\ form = IF HasBom(input) THEN "bom"
            ELSE IF input \in DamagedTexts THEN "damaged" ELSE "json"
  /\ calls = <<>>
  /\ NotStarted

CallWithOptions ==
  /\ Len(calls) >= 1
  /\ Len(calls) < MaxCalls
  /\ \E pretty \in BOOLEAN :
       calls' = Append(calls, ObservedWith(
                                sort_package_json_with_options(input, pretty), pretty))
  /\ UNCHANGED <<input, form, wrapper>>

NextOptions == Call \/ CallWithOptions

SpecOptions == InitOptions /\ [][NextOptions]_vars

WithOptions(c) == "pretty" \in DOMAIN c

IsPretty(c) == IF WithOptions(c) THEN c.pretty ELSE TRUE

\* the quotes of a JSON text that open or close a string: those after an
\* even number of backslashes
BackslashesBefore(text, q) ==
  LET before == {k \in 1..(q - 1) : text[k] # Ch.backslash}
      last == IF before = {} THEN 0
              ELSE CHOOSE k \in before : \A m \in before : m <= k
  IN  q - 1 - last

StringQuotes(text) ==
  {q \in 1..Len(text) :
     text[q] = Ch.quote /\ BackslashesBefore(text, q) % 2 = 0}

OutsideStrings(text, quotes, j) ==
  Cardinality({q \in quotes : q < j}) % 2 = 0

WhitespaceOutside(text, quotes) ==
  {j \in 1..Len(text) : text[j] \in Whitespace /\ OutsideStrings(text, quotes, j)}

InsignificantWhitespace(text) == WhitespaceOutside(text, StringQuotes(text))

IsEmptyContainer(v) ==
  \/ v.t = "arr" /\ v.a = <<>>
  \/ v.t = "obj" /\ v.o = <<>>

\* a non-empty array or object over several lines: its first element on a
\* line of its own, two spaces in, and the closing bracket on the last line
MultiLine(text) ==
  /\ Len(text) >= 7
  /\ text[2] = Ch.lf /\ text[3] = Ch.space /\ text[4] = Ch.space
  /\ text[5] # Ch.space
  /\ text[Len(text) - 2] = Ch.lf
  /\ text[Len(text) - 1] \in {Ch.rbrace, Ch.rbracket}

\* the forms are those of the text after the byte order mark, if any
PrettyText(text, sorted) ==
  /\ Len(text) >= 2
  /\ text[Len(text)] = Ch.lf
  /\ text[Len(text) - 1] # Ch.lf
  /\ text[1] \notin Whitespace
  /\ (IsContainer(sorted) /\ ~IsEmptyContainer(sorted)) => MultiLine(text)

PrettyForm(c) == PrettyText(Stripped(c.result), c.sorted_value)

CompactText(text) ==
  /\ Len(text) >= 1
  /\ InsignificantWhitespace(text) = {}
  /\ text[Len(text)] # Ch.lf

CompactForm(c) == CompactText(Stripped(c.result))

\* C14: serializer modes: with pretty = true the output is multi-line
\* indented JSON that ends in exactly one line feed; with pretty = false it is
\* JSON with no whitespace outside its strings and no line feed at the end;
\* the one-argument entry point gives what pretty = true gives, and both
\* modes write the same value.
C14_SerializerModes ==
  \A i \in 1..Len(calls) :
    /\ (calls[i].ok /\ IsPretty(calls[i])) => PrettyForm(calls[i])
    /\ (calls[i].ok /\ ~IsPretty(calls[i])) => CompactForm(calls[i])
    /\ calls[i].ok => (calls[i].parsed.ok /\ calls[i].parsed.v = calls[i].sorted_value)
    /\ \A j \in 1..Len(calls) :
         (~WithOptions(calls[i]) /\ WithOptions(calls[j]) /\ calls[j].pretty
            /\ calls[i].input = calls[j].input)
           => (calls[i].ok = calls[j].ok /\ calls[i].result = calls[j].result)

(***************************************************************************)
(* The command-line program of src/src/main.rs.  The walk yields entries   *)
(* in some order; an entry is an error of the walk, a file of another name *)
(* or a package.json.  A file can be read or not, holds a text, can be     *)
(* opened for writing or not ("denied"), and takes `limit` characters at   *)
(* most (NoLimit: any number): fs::write empties the file it has opened    *)
(* and writes until the text is out or the file takes no more.  Two        *)
(* entries can be one file under two names (a hard link): `ino` says which *)
(* file an entry is.  A path is the position of its entry.  A line to      *)
(* stderr is written or, when stderr takes no more, eprintln! panics and   *)
(* the process ends with status 101.                                       *)
(***************************************************************************)
MaxFiles == 3

NoLimit == -1

PanicStatus == 101

ManifestText == Compact(Obj(<<E(S.version, Str(S.x)), E(S.name, Str(S.p))>>))

BrokenText == <<Ch.lbrace, Ch.quote, 97, Ch.quote, Ch.colon, Ch.rbrace>>

File(walk_ok, file_name, readable, contents, writable, limit) ==
  [walk_ok |-> walk_ok, file_name |-> file_name, readable |-> readable,
   contents |-> contents, writable |-> writable, limit |-> limit, link |-> FALSE]

\* a second name of the file of the entry before it
Link(file_name) == [link |-> TRUE, file_name |-> file_name]

WalkEntries ==
  {File(FALSE, "package.json", TRUE, ManifestText, "yes", NoLimit),
   File(TRUE, "index.js", TRUE, ManifestText, "yes", NoLimit),
   File(TRUE, "package.json", FALSE, ManifestText, "yes", NoLimit),
   File(TRUE, "package.json", TRUE, BrokenText, "yes", NoLimit),
   File(TRUE, "package.json", TRUE, ManifestText, "denied", NoLimit)}
  \cup {File(TRUE, "package.json", TRUE, ManifestText, "yes", l) : l \in {NoLimit, 0, 10}}
  \cup {Link("package.json")}

\* the entry whose file the entry at i is a name of
Target(walk, i) == CHOOSE j \in 1..i : ~walk[j].link /\ \A k \in (j + 1)..i : walk[k].link

Linked(walk) ==
  /\ walk # <<>> => ~walk[1].link
  /\ \A i \in 1..Len(walk) : walk[i].link => walk[Target(walk, i)].walk_ok

\* the entries with every name resolved to its file
Resolved(walk) ==
  [i \in 1..Len(walk) |->
     [walk_ok |-> IF walk[i].link THEN TRUE ELSE walk[i].walk_ok,
      file_name |-> walk[i].file_name,
      readable |-> walk[Target(walk, i)].readable,
      contents |-> walk[Target(walk, i)].contents,
      writable |-> walk[Target(walk, i)].writable,
      limit |-> walk[Target(walk, i)].limit,
      ino |-> Target(walk, i)]]

InitMain ==
  /\ input = <<>> /\ form = "json" /\ calls = <<>>
  /\ \E walk \in SeqsUpTo(WalkEntries, MaxFiles) :
       Linked(walk) /\ files = Resolved(walk)
  /\ walked = 0
  /\ found_files = 0 /\ sorted_files = 0 /\ errors = 0
  /\ stderr = <<>>
  /\ pc = "main"
  /\ exit_code = 0

\* .filter_map(Result::ok).filter(|e| e.file_name() == "package.json")
Yielded(i) == files[i].walk_ok /\ files[i].file_name = "package.json"

\* the entries the for loop has still to take
Remaining == {i \in (walked + 1)..Len(files) : Yielded(i)}

\* fs::write(file_path, sorted): the file is opened and emptied, then takes
\* the text or as much of it as its limit lets in
Write(file, text) ==
  IF file.writable = "denied"
  THEN [ok |-> FALSE, err |-> "Failed to write", file |-> file]
  ELSE IF file.limit # NoLimit /\ Len(text) > file.limit
  THEN [ok |-> FALSE, err |-> "Failed to write",
        file |-> [file EXCEPT !.contents = SubSeq(text, 1, file.limit)]]
  ELSE [ok |-> TRUE, err |-> "", file |-> [file EXCEPT !.contents = text]]

\* a process_file that opens the file for writing before it looks at what
\* sort_package_json returned
WrittenUnchecked(file, sorted) ==
  IF ~sorted.ok
  THEN [ok |-> FALSE, err |-> "Failed to parse JSON",
        file |-> Write(file, <<>>).file]
  ELSE Write(file, sorted.result)

\* process_file once the text is read and sort_package_json has returned
Written(file, sorted) ==
  IF ~sorted.ok THEN [ok |-> FALSE, err |-> "Failed to parse JSON", file |-> file]
  ELSE Write(file, sorted.result)

process_file(file) ==
  IF ~file.readable THEN [ok |-> FALSE, err |-> "Failed to read", file |-> file]
  ELSE Written(file, sort_package_json(file.contents))

\* eprintln!: the line is written, or the macro panics and the process ends
\* there with the status of a panic
Eprintln(line, stderr_ok, pc_after, status_after) ==
  IF stderr_ok
  THEN /\ stderr' = Append(stderr, line)
       /\ pc' = pc_after
       /\ exit_code' = status_after
  ELSE /\ UNCHANGED stderr
       /\ pc' = IF pc = "main" THEN "failed" ELSE "exited"
       /\ exit_code' = PanicStatus

\* main up to the for loop: env::current_dir() and the three counters
Main ==
  /\ pc = "main"
  /\ \E current_dir_ok, stderr_ok \in BOOLEAN :
       IF current_dir_ok
       THEN /\ pc' = "walk"
            /\ UNCHANGED <<stderr, exit_code>>
       ELSE Eprintln([line |-> "Error getting current directory"], stderr_ok,
                     "failed", 1)
  /\ found_files' = 0 /\ sorted_files' = 0 /\ errors' = 0
  /\ UNCHANGED <<input, form, calls, files, walked>>

\* one turn of the for loop, on the next entry the filters let through
Reported(path, done) ==
  IF done.ok THEN [line |-> "Sorted", path |-> path]
  ELSE [line |-> "Error processing", path |-> path, err |-> done.err]

\* the files once the file of `path` holds what process_file left in it:
\* every name of that file shows it
Stored(path, done) ==
  [i \in 1..Len(files) |->
     IF files[i].ino = files[path].ino
     THEN [files[i] EXCEPT !.contents = done.file.contents]
     ELSE files[i]]

\* a loop body that counts the file as sorted before it looks at the result
TurnCountedFirst(path, done, stderr_ok) ==
  /\ walked' = path
  /\ found_files' = found_files + 1
  /\ files' = Stored(path, done)
  /\ sorted_files' = sorted_files + 1
  /\ IF done.ok THEN UNCHANGED errors ELSE errors' = errors + 1
  /\ Eprintln(Reported(path, done), stderr_ok, pc, exit_code)

Turn(path, done, stderr_ok) ==
  /\ walked' = path
  /\ found_files' = found_files + 1
  /\ files' = Stored(path, done)
  /\ IF done.ok
     THEN sorted_files' = sorted_files + 1 /\ UNCHANGED errors
     ELSE errors' = errors + 1 /\ UNCHANGED sorted_files
  /\ Eprintln(Reported(path, done), stderr_ok, pc, exit_code)

Loop ==
  /\ pc = "walk"
  /\ Remaining # {}
  /\ \E stderr_ok \in BOOLEAN :
       LET path == CHOOSE i \in Remaining : \A j \in Remaining : i <= j
       IN  Turn(path, process_file(files[path]), stderr_ok)
  /\ UNCHANGED <<input, form, calls>>

\* main after the for loop: the four eprintln! of the summary, one at a
\* step and each able to panic, and after the last the exit status.  The
\* first is reached when the walk yields no further package.json.
Summary ==
  /\ \E stderr_ok \in BOOLEAN :
       \/ /\ pc = "walk"
          /\ Remaining = {}
          /\ walked' = Len(files)
          /\ Eprintln([line |-> "\nSummary:"], stderr_ok, "found", exit_code)
       \/ /\ pc = "found"
          /\ UNCHANGED walked
          /\ Eprintln([line |-> "  Found:", n |-> found_files], stderr_ok,
                      "sorted", exit_code)
       \/ /\ pc = "sorted"
          /\ UNCHANGED walked
          /\ Eprintln([line |-> "  Sorted:", n |-> sorted_files], stderr_ok,
                      "errors", exit_code)
       \/ /\ pc = "errors"
          /\ UNCHANGED walked
          /\ Eprintln([line |-> "  Errors:", n |-> errors], stderr_ok,
                      "exited", IF errors > 0 THEN 1 ELSE 0)
  /\ UNCHANGED <<input, form, calls, files, found_files, sorted_files, errors>>

NextMain == Main \/ Loop \/ Summary

SpecMain == InitMain /\ [][NextMain]_vars

\* process_file fails on this file: it cannot be read, or its text is not
\* JSON, or it cannot be written
Fails(file) ==
  IF ~file.readable THEN TRUE
  ELSE IF ~sort_package_json(file.contents).ok THEN TRUE
  ELSE IF file.writable # "yes" THEN TRUE
  ELSE file.limit # NoLimit /\ Len(sort_package_json(file.contents).result) > file.limit

Discovered == {i \in 1..Len(files) : Yielded(i)}

ReportsOf(path) ==
  {n \in 1..Len(stderr) :
     stderr[n].line \in {"Sorted", "Error processing"} /\ stderr[n].path = path}

\* the program ended before its walk: no current directory
CurrentDirFailed == pc = "failed"

\* the program has left the for loop and ended
WalkFinished == pc = "exited"

\* every discovered file was taken once and reported by its own outcome
Settled ==
  /\ walked = Len(files)
  /\ \A i \in Discovered :
       /\ Cardinality(ReportsOf(i)) = 1
       /\ \A n \in ReportsOf(i) :
            stderr[n].line = IF Fails(files[i]) THEN "Error processing" ELSE "Sorted"
  /\ found_files = Cardinality(Discovered)
  /\ errors = Cardinality({i \in Discovered : Fails(files[i])})
  /\ sorted_files = Cardinality({i \in Discovered : ~Fails(files[i])})
  /\ Len(stderr) >= 4
  /\ stderr[Len(stderr) - 3] = [line |-> "\nSummary:"]
  /\ stderr[Len(stderr) - 2] = [line |-> "  Found:", n |-> found_files]
  /\ stderr[Len(stderr) - 1] = [line |-> "  Sorted:", n |-> sorted_files]
  /\ stderr[Len(stderr)] = [line |-> "  Errors:", n |-> errors]
  /\ (exit_code # 0) <=> (\E i \in Discovered : Fails(files[i]))

\* C15: the wrapper treats each discovered package.json on its own: when the
\* program ends after its walk, a read, parse or write failure on one file
\* has been counted and reported, every other file has been processed all
\* the same, and the exit status is non-zero exactly when a file failed.
C15_FilesIndependent == WalkFinished => Settled

(***************************************************************************)
(* Manifests of one recognized field whose value is built for the field's  *)
(* transform: condition maps for exports, contact objects for the fields   *)
(* with a key order, arrays of people, nested objects.                     *)
(***************************************************************************)
DistinctSeqsUpTo(set, n) ==
  {s \in SeqsUpTo(set, n) : \A i, j \in 1..Len(s) : s[i] = s[j] => i = j}

FieldsWith(transforms) ==
  {KnownFields[i].key : i \in {j \in 1..Len(KnownFields) :
                                 KnownFields[j].transform \in transforms}}

\* a map of conditions given default first and types last
Conditions(value) ==
  Obj(<<E(S.default, value), E(S.import, value), E(S.types, value)>>)

ExportKeys ==
  {S.dot, S.dot_x, S.types, S.types_v, S.import, S.default,
   S.types \o <<120>>, S.default \o <<115>>}

ExportValue(key) ==
  CASE key = S.dot -> Conditions(Conditions(Str(S.a)))
    [] key = S.types -> Conditions(Str(S.b))
    [] key = S.import -> Conditions(Str(S.c))
    [] key = S.default -> Conditions(Str(S.x))
    [] OTHER -> Str(key)

ExportsValues ==
  {Obj([i \in 1..Len(ks) |-> E(ks[i], ExportValue(ks[i]))]) :
     ks \in DistinctSeqsUpTo(ExportKeys, MaxKeys)}

\* the key order the arm of the field hands to sort_object_by_key_order
\* ("author" goes through sort_people_object)
OrderOf(key) ==
  IF FieldOf(key).transform = "people" THEN <<Lit.name, Lit.email, Lit.url>>
  ELSE FieldOf(key).key_order

Reverse(s) == [i \in 1..Len(s) |-> s[Len(s) + 1 - i]]

FirstKeys(order) == {order[i] : i \in {j \in 1..Len(order) : j <= 3}}

ContactValue(key, order) ==
  CASE key = S.a -> ObjBA
    [] key = S.z -> ArrStrings
    [] key = order[1] -> ObjBA
    [] OTHER -> Str(key)

ContactObject(ks, order) == Obj([i \in 1..Len(ks) |-> E(ks[i], ContactValue(ks[i], order))])

\* objects over the first keys of the order and two keys outside it, in
\* every order, and one object with the whole order backwards
ContactValues(order) ==
  {ContactObject(ks, order) :
     ks \in DistinctSeqsUpTo(FirstKeys(order) \cup {S.a, S.z}, MaxKeys)}
  \cup {ContactObject(<<S.z, S.a>> \o Reverse(order), order)}

\* a person given as z, url, a, email, name, and other elements
PersonFull ==
  Obj(<<E(S.z, Num(1)), E(S.url, ObjBA), E(S.a, ArrStrings), E(S.email, Str(S.b)),
        E(S.name, Str(S.a))>>)

PeopleElements == {PersonFull, ObjBA, Str(S.b), Arr(<<PersonFull>>)}

PeopleValues == {Arr(a) : a \in SeqsUpTo(PeopleElements, MaxArr)}

\* objects nested depth levels deep, every level with its keys descending
\* and an array that holds an object of its own
RECURSIVE Chain(_)
Chain(depth) ==
  IF depth = 0 THEN ArrMixed
  ELSE Obj(<<E(S.z, Num(depth)), E(S.b, Chain(depth - 1)),
             E(S.a, Arr(<<ObjBA, Str(S.b), Str(S.a)>>))>>)

NestedValues == {Chain(depth) : depth \in 1..MaxDepth} \cup {ObjNested, ObjBA, ObjContact}

\* objects of up to MaxKeys keys in every order, the values nested objects
\* and arrays with an order of their own
FlatValue(key) ==
  CASE key = S.z -> ObjNested
    [] key = S.b -> ObjBA
    [] key = S.a -> ArrMixed
    [] OTHER -> Str(key)

FlatValues ==
  {Obj([i \in 1..Len(ks) |-> E(ks[i], FlatValue(ks[i]))]) :
     ks \in DistinctSeqsUpTo({S.z, S.x, S.b, S.a}, MaxKeys)}

ValueManifests ==
  {Obj(<<E(S.exports, v)>>) : v \in ExportsValues}
  \cup {Obj(<<E(key, v)>>) : key \in FieldsWith({"alpha"}), v \in FlatValues}
  \cup {Obj(<<E(key, v)>>) : key \in FieldsWith({"recursive"}), v \in NestedValues}
  \cup {Obj(<<E(key, v)>>) : key \in FieldsWith({"people_array"}), v \in PeopleValues}
  \cup UNION {{Obj(<<E(key, v)>>) : v \in ContactValues(OrderOf(key))} :
               key \in FieldsWith({"order", "people"})}

InitValues ==
  /\ input \in {Compact(v) : v \in ValueManifests}
  /\ form = "json"
  /\ calls = <<>>
  /\ NotStarted

SpecValues == InitValues /\ [][Next]_vars

\* the four groups of section 4.3: 1 paths, 2 types, 3 other, 4 default
IsPathKey(key) == starts_with(key, <<Ch.dot>>)
IsTypesKey(key) == key = Lit.types \/ starts_with(key, Lit.types_at)
IsDefaultKey(key) == key = Lit.default
IsOtherKey(key) == ~IsPathKey(key) /\ ~IsTypesKey(key) /\ ~IsDefaultKey(key)

GroupsOf(key) ==
  {g \in 1..4 : \/ g = 1 /\ IsPathKey(key)
                \/ g = 2 /\ IsTypesKey(key)
                \/ g = 3 /\ IsOtherKey(key)
                \/ g = 4 /\ IsDefaultKey(key)}

\* the keys of o are in group order and, inside a group, ascending
InGroupOrder(o) ==
  \A i, j \in 1..Len(o) :
    i < j => \E g \in GroupsOf(o[i].k) : \E h \in GroupsOf(o[j].k) :
               \/ g < h
               \/ g = h /\ StrLess(o[i].k, o[j].k)

SameKeys(x, y) ==
  /\ Len(x) = Len(y)
  /\ \A i \in 1..Len(x) : Occurrences(y, x[i].k) = 1

HasObject(key) ==
  /\ IsManifest
  /\ HasKey(TopIn, key)
  /\ Get(TopIn, key).t = "obj"

\* C16: sort-exports group order: for an object value of exports the output
\* keys are those starting with '.', then 'types' and those starting with
\* 'types@', then all other keys, then 'default'; inside each group the keys
\* ascend; every input key is in exactly one group and comes out once.
C16_ExportsGroupOrder ==
  HasObject(S.exports) =>
    /\ \A i \in 1..Len(Get(TopIn, S.exports).o) :
         Cardinality(GroupsOf(Get(TopIn, S.exports).o[i].k)) = 1
    /\ Get(TopOut, S.exports).t = "obj"
    /\ SameKeys(Get(TopIn, S.exports).o, Get(TopOut, S.exports).o)
    /\ InGroupOrder(Get(TopOut, S.exports).o)

\* a condition map given as default, import, types and a path, which comes
\* out as the path, types, import, default
C16_Witness ==
  /\ HasObject(S.exports)
  /\ Keys(Get(TopIn, S.exports).o) = <<S.default, S.import, S.types>>
  /\ Keys(Get(TopOut, S.exports).o) = <<S.types, S.import, S.default>>

RECURSIVE DeepGroupOrder(_)
DeepGroupOrder(v) ==
  IF v.t # "obj" THEN TRUE
  ELSE /\ InGroupOrder(v.o)
       /\ \A i \in 1..Len(v.o) : DeepGroupOrder(v.o[i].v)

\* C17: sort-exports recurses into every entry whose value is an object, in
\* all four groups: after the call every object nested at any depth under
\* exports has its keys in paths, types, other, default order.
C17_ExportsRecursion ==
  HasObject(S.exports) => DeepGroupOrder(Get(TopOut, S.exports))

Index(s, x) == CHOOSE i \in 1..Len(s) : s[i] = x

\* the keys of the order come first, as the order lists them, and the other
\* keys follow ascending
OrderedBy(o, order) ==
  \A i, j \in 1..Len(o) :
    i < j =>
      IF o[i].k \in Range(order)
      THEN o[j].k \in Range(order) => Index(order, o[i].k) < Index(order, o[j].k)
      ELSE o[j].k \notin Range(order) /\ StrLess(o[i].k, o[j].k)

ValuesKept(x, y) == \A i \in 1..Len(y) : HasKey(x, y[i].k) /\ Get(x, y[i].k) = y[i].v

OrderFields == FieldsWith({"order", "people"})

\* C18: sort-subkey-order on an object value (bugs, repository, funding,
\* author, directories, binary): the keys of the order that the input has
\* come first, in the sequence of the order; the other keys follow in
\* ascending order; no absent key of the order is inserted; every value is
\* the value of the input.
C18_SubkeyOrder ==
  /\ Cardinality(OrderFields) = 6
  /\ S.bugs \in OrderFields /\ S.author \in OrderFields
  /\ \A key \in OrderFields :
       HasObject(key) =>
         /\ Get(TopOut, key).t = "obj"
         /\ SameKeys(Get(TopIn, key).o, Get(TopOut, key).o)
         /\ ValuesKept(Get(TopIn, key).o, Get(TopOut, key).o)
         /\ OrderedBy(Get(TopOut, key).o, OrderOf(key))

\* bugs given as z, a, email, url: out come url, email, a, z, the nested
\* object under url with its keys as given
C18_Witness ==
  /\ HasObject(S.bugs)
  /\ Keys(Get(TopIn, S.bugs).o) = <<S.z, S.a, S.email, S.url>>
  /\ Keys(Get(TopOut, S.bugs).o) = <<S.url, S.email, S.a, S.z>>
  /\ Get(Get(TopOut, S.bugs).o, S.url) = ObjBA

PeopleFields == FieldsWith({"people_array"})

HasArray(key) ==
  /\ IsManifest
  /\ HasKey(TopIn, key)
  /\ Get(TopIn, key).t = "arr"

\* the element with its keys as name, email, url and then the rest ascending
\* when it is an object, and the element itself when it is not
PersonOf(x, y) ==
  IF x.t = "obj"
  THEN /\ y.t = "obj"
       /\ SameKeys(x.o, y.o)
       /\ ValuesKept(x.o, y.o)
       /\ OrderedBy(y.o, <<Lit.name, Lit.email, Lit.url>>)
  ELSE y = x

PeopleOf(a, b) ==
  /\ Len(b) = Len(a)
  /\ \A i \in 1..Len(a) : PersonOf(a[i], b[i])

\* C19: sort-people-array on an array value (maintainers, contributors): the
\* output array is as long as the input; the element at each index is the
\* input element at that index, its keys reordered to name, email, url and
\* then the rest ascending when it is an object, unchanged when it is not.
C19_PeopleArray ==
  /\ Cardinality(PeopleFields) = 2
  /\ S.maintainers \in PeopleFields
  /\ \A key \in PeopleFields :
       HasArray(key) =>
         /\ Get(TopOut, key).t = "arr"
         /\ PeopleOf(Get(TopIn, key).a, Get(TopOut, key).a)

\* maintainers with a person given as z, url, a, email, name twice around a
\* string: three elements out, the string in the middle, the people as name,
\* email, url, a, z
C19_Witness ==
  /\ HasArray(S.maintainers)
  /\ Get(TopIn, S.maintainers).a = <<PersonFull, Str(S.b), PersonFull>>
  /\ Len(Get(TopOut, S.maintainers).a) = 3
  /\ Get(TopOut, S.maintainers).a[2] = Str(S.b)
  /\ Keys(Get(TopOut, S.maintainers).a[3].o) = <<S.name, S.email, S.url, S.a, S.z>>

Ascending(o) == \A i, j \in 1..Len(o) : i < j => StrLess(o[i].k, o[j].k)

\* y is x with the keys of every object reached through objects ascending,
\* and with every other value as it is in x
RECURSIVE SortedThrough(_, _)
SortedThrough(x, y) ==
  IF x.t # "obj" THEN y = x
  ELSE /\ y.t = "obj"
       /\ SameKeys(x.o, y.o)
       /\ Ascending(y.o)
       /\ \A i \in 1..Len(x.o) : SortedThrough(x.o[i].v, Get(y.o, x.o[i].k))

RecursiveFields == FieldsWith({"recursive"})

\* C20: sort-recursive on an object value (babel, jest, eslintConfig, husky
\* and the other fields of that kind): at every depth reached through
\* object-valued entries the keys ascend, and every value that is not an
\* object, an array with whatever it holds included, is as in the input.
C20_RecursiveSort ==
  /\ S.babel \in RecursiveFields
  /\ \A key \in RecursiveFields :
       HasObject(key) => SortedThrough(Get(TopIn, key), Get(TopOut, key))

\* babel with objects three levels deep, each level given as z, b, a and
\* holding an array with an object given as b, a: every level comes out as
\* a, b, z and the arrays come out as given
C20_Witness ==
  /\ HasObject(S.babel)
  /\ Get(TopIn, S.babel) = Chain(3)
  /\ Keys(Get(TopOut, S.babel).o) = <<S.a, S.b, S.z>>
  /\ Keys(Get(Get(TopOut, S.babel).o, S.b).o) = <<S.a, S.b, S.z>>
  /\ Keys(Get(Get(Get(TopOut, S.babel).o, S.b).o, S.b).o) = <<S.a, S.b, S.z>>
  /\ Get(Get(TopOut, S.babel).o, S.a) = Arr(<<ObjBA, Str(S.b), Str(S.a)>>)

AlphaFields == FieldsWith({"alpha"})

\* C21: sort-alphabetical on an object value (dependencies, devDependencies,
\* bin, engines, publishConfig and the other fields of that kind): the keys
\* of the first level come out ascending, and each entry's value is the value
\* of the input, the key order of a nested object included.
C21_FirstLevelOnly ==
  /\ S.dependencies \in AlphaFields
  /\ \A key \in AlphaFields :
       HasObject(key) =>
         /\ Get(TopOut, key).t = "obj"
         /\ SameKeys(Get(TopIn, key).o, Get(TopOut, key).o)
         /\ Ascending(Get(TopOut, key).o)
         /\ ValuesKept(Get(TopIn, key).o, Get(TopOut, key).o)

\* dependencies given as z, b, a with nested objects whose keys descend: out
\* come a, b, z, each with its value as given
C21_Witness ==
  /\ HasObject(S.dependencies)
  /\ Keys(Get(TopIn, S.dependencies).o) = <<S.z, S.b, S.a>>
  /\ Keys(Get(TopOut, S.dependencies).o) = <<S.a, S.b, S.z>>
  /\ Get(Get(TopOut, S.dependencies).o, S.z) = ObjNested
  /\ ObjNested.o # sort_object_recursive(ObjNested.o)
  /\ Get(Get(TopOut, S.dependencies).o, S.b) = ObjBA

\* the file cannot be read, or its text is not JSON
Unusable(file) ==
  IF ~file.readable THEN TRUE ELSE ~sort_package_json(file.contents).ok

\* C22: in the wrapper a file whose contents cannot be read or cannot be
\* parsed as JSON is never written: no step of the program changes it, so it
\* keeps its original contents.
C22_FailingFileUntouched ==
  [][\A i \in 1..Len(files) : Unusable(files[i]) => files'[i] = files[i]]_vars

ErrorsOf(path) ==
  {n \in 1..Len(stderr) :
     stderr[n].line = "Error processing" /\ stderr[n].path = path}

\* a finished run that reported one file as unreadable and one as not JSON,
\* both still with the text they had, and sorted a third
C22_Witness ==
  /\ WalkFinished
  /\ \E i, j, k \in Discovered :
       /\ \E n \in ErrorsOf(i) : stderr[n].err = "Failed to read"
       /\ files[i].contents = ManifestText
       /\ \E n \in ErrorsOf(j) : stderr[n].err = "Failed to parse JSON"
       /\ files[j].contents = BrokenText
       /\ ReportsOf(k) # {} /\ ErrorsOf(k) = {}
       /\ files[k].contents = sort_package_json(ManifestText).result
       /\ files[k].contents # ManifestText

\* the discovered files the loop has taken so far
Taken == {i \in Discovered : i <= walked}

CountersAgree ==
  /\ found_files = sorted_files + errors
  /\ found_files = Cardinality(Taken)

\* the step takes one discovered file: the for loop moves on to it
TakesFile == pc = "walk" /\ walked' \in Remaining

CountersStep ==
  /\ found_files' >= found_files
  /\ sorted_files' >= sorted_files
  /\ errors' >= errors
  /\ IF TakesFile
     THEN /\ found_files' = found_files + 1
          /\ \/ sorted_files' = sorted_files + 1 /\ errors' = errors
             \/ sorted_files' = sorted_files /\ errors' = errors + 1
     ELSE /\ found_files' = found_files
          /\ sorted_files' = sorted_files
          /\ errors' = errors

\* C23: wrapper counters: after any number of files found_files =
\* sorted_files + errors; each discovered package.json adds one to
\* found_files, once, and one to exactly one of sorted_files and errors; no
\* counter ever goes down.
C23_Counters == [](CountersAgree) /\ [][CountersStep]_vars

\* in the middle of a walk: two files taken, one sorted and one failed, and
\* a third still to come
C23_Witness ==
  /\ pc = "walk"
  /\ Remaining # {}
  /\ found_files = 2 /\ sorted_files = 1 /\ errors = 1
  /\ Cardinality(Taken) = 2

====
